---- MODULE Spec2Model ----
(***************************************************************************)
(* Session bookkeeping of the Taskonaut time-tracking overlay.             *)
(*                                                                         *)
(* The model covers the session store (core/json_database.py), the overlay *)
(* controller (gui/beautiful_clean_overlay.py) and the session editor      *)
(* dialog (gui/session_editor.py) as far as they read or write the session *)
(* list, the recent project/task combinations and the sessions file.       *)
(*                                                                         *)
(* Time is a number of milliseconds since the start of day 0; a datetime   *)
(* is such a number, a timedelta is a difference of two of them.           *)
(***************************************************************************)
EXTENDS Integers, Sequences, FiniteSets, TLC

\* ------------------------------------------------------------------ bounds
\* number of clock advances in one behaviour
MaxTicks == 2
\* number of session records the store may hold
MaxSessions == 3
\* number of handler runs and store calls in one behaviour
MaxSteps == 3

\* length of the session lists the report and query functions are applied to
MaxQueryLen == 2

\* --------------------------------------------------------------- constants
MsPerSecond == 1000
SecondsPerMinute == 60
SecondsPerHour == 3600
\* the daily target used when work_hours has no entry for the weekday
DefaultTargetHours == 8
DaysPerWeek == 7
HundredthHourMs == 36000
DayMs == 24 * 60 * 60 * MsPerSecond
DefaultAutoSplitMinutes == 5
RecentLimit == 10

\* amounts by which the wall clock advances between two handlers
TickSteps == {500, 299500}

\* "no datetime" (Python None) for end_time; real datetimes are >= 0
NoneTime == -1
\* text typed in a dialog field: a value that parses (>= 0), the empty
\* string, or text that datetime.strptime rejects
EmptyText == -1
BadText == -2

\* the (project, task) pairs typed into the project/task editor
InputCombos == {<<"General", "Daily Work">>, <<"BREAK", "Pause">>}
\* the (dialog, project, task) choice made when a session is added by hand:
\* the Add Break dialog with its fields as offered
AddInputs == {<<"break", "BREAK", "Pause">>}
SessionTypes == {"work", "break"}

\* values offered for the dialog fields
EditDurationMinutes == {5}
AutoSplitChoices == {DefaultAutoSplitMinutes, 0}

NoId == [kind |-> "none", n |-> 0]

\* ------------------------------------------------------------ time helpers
\* int(timedelta.total_seconds()): truncation toward zero
IntSeconds(d) == IF d >= 0 THEN d \div MsPerSecond ELSE -((-d) \div MsPerSecond)

\* datetime.date(): the calendar day of a datetime
DateOf(t) == t \div DayMs

\* strftime('%H:%M:%S') followed by strptime: the second of the day
FormatHMS(t) == (t % DayMs) \div MsPerSecond

\* strftime('%H:%M') followed by strptime: the minute of the day
FormatHM(t) == (t % DayMs) \div (SecondsPerMinute * MsPerSecond)

\* datetime.strptime(f"{date} {time}", '%Y-%m-%d %H:%M:%S')
DateTimeOfSeconds(day, sec) == day * DayMs + sec * MsPerSecond

\* datetime.combine(date, strptime(text, "%H:%M").time())
DateTimeOfMinutes(day, min) == day * DayMs + min * SecondsPerMinute * MsPerSecond

\* ------------------------------------------------------- sequence helpers
RECURSIVE SumSeq(_)
SumSeq(s) == IF s = << >> THEN 0 ELSE Head(s) + SumSeq(Tail(s))

\* index of the first element of s equal to x, 0 if there is none
RECURSIVE IndexOf(_, _, _)
IndexOf(s, x, from) ==
    IF from > Len(s) THEN 0
    ELSE IF s[from] = x THEN from ELSE IndexOf(s, x, from + 1)

RemoveAt(s, i) == SubSeq(s, 1, i - 1) \o SubSeq(s, i + 1, Len(s))

Min(a, b) == IF a <= b THEN a ELSE b
Max(a, b) == IF a >= b THEN a ELSE b

\* ------------------------------------------------------------------- state
VARIABLES
    sessions,          \* JsonDatabase.sessions: the list of TimeSession records
    objs,              \* the object behind each list entry (equal = same object)
    sessions_file,     \* sessions.json: whether it exists, and the records in it
    recent,            \* projects_data['recent_combinations']
    active_project,    \* projects_data['active_project']
    active_task,       \* projects_data['active_task']
    auto_split_minutes,\* config_data['auto_split_minutes']
    work_hours,        \* config_data['work_hours']: hours by weekday, keys optional
    projects_embedded, \* config_data has the key 'projects_data'
    config_file,       \* config.json: whether it exists and parses, and the document
    config,            \* ConfigManager.config, << >> while no ConfigManager exists
    current_project,   \* BeautifulCleanOverlay.current_project
    current_task,      \* BeautifulCleanOverlay.current_task
    is_running,        \* BeautifulCleanOverlay.is_running
    refresh_pending,   \* an update_display call queued by the update loop
    window,            \* "open" until on_closing has destroyed the root window
    export,            \* outcome of the last export_all call
    now,               \* the wall clock, datetime.now()
    ticks,             \* clock advances so far
    uuids,             \* uuid4 values handed out so far
    steps,             \* handler runs and store calls so far
    last,              \* the handler or store call that ran last, and its result
    workbook,          \* the spreadsheet file: whether it exists, is locked, and its sheets
    projects_file,     \* the legacy projects.json: whether it exists and parses, and the document
    session_manager    \* the legacy SessionManager object and its fields

vars == <<sessions, objs, sessions_file, recent, active_project, active_task,
          auto_split_minutes, current_project, current_task, is_running,
          refresh_pending, window, export, now, ticks, uuids, steps, last,
          work_hours, projects_embedded, config_file, config,
          workbook,
          projects_file,
          session_manager>>

Call(op, ret) == [op |-> op, ret |-> ret]

\* ----------------------------------------------------------- TimeSession
TimeSession(id, start_time, end_time, project, task, duration_seconds, is_active, session_type, note) ==
    [id |-> id, start_time |-> start_time, end_time |-> end_time,
     project |-> project, task |-> task,
     duration_seconds |-> duration_seconds, is_active |-> is_active,
     session_type |-> session_type, note |-> note]

\* a fresh object identity for a newly constructed TimeSession
NewObj(ob) == CHOOSE k \in 1..(Len(ob) + 1) : \A i \in DOMAIN ob : ob[i] # k

\* assignment to fields of the object at list position i: every list entry
\* that is the same object shows the new value
SetObj(ss, ob, i, r) ==
    [k \in DOMAIN ss |-> IF ob[k] = ob[i] THEN r ELSE ss[k]]

\* ------------------------------------------------- recent combinations
\* a name as the pieces between occurrences of the separator " - "
Pieces(name) == IF name = "A - B" THEN <<"A", " - ", "B">> ELSE <<name>>

\* the name spelled by a sequence of pieces
Spell(ps) ==
    IF Len(ps) = 1 THEN ps[1]
    ELSE IF ps = <<"A", " - ", "B">> THEN "A - B"
    ELSE "?"

\* f"{project} - {task}"
Combination(project, task) == Pieces(project) \o <<" - ">> \o Pieces(task)

\* combination.split(' - ', 1), with the fallback for a text without " - "
SplitCombination(c) ==
    LET k == IndexOf(c, " - ", 1)
    IN  IF k = 0 THEN <<Spell(c), "Daily Work">>
        ELSE <<Spell(SubSeq(c, 1, k - 1)), Spell(SubSeq(c, k + 1, Len(c)))>>

\* an update_recent_combination that does not remove the existing entry
update_recent_combination_KeepsOld(rc, project, task) ==
    LET inserted == <<Combination(project, task)>> \o rc
    IN  SubSeq(inserted, 1, Min(Len(inserted), RecentLimit))

\* JsonDatabase.update_recent_combination
update_recent_combination(rc, project, task) ==
    LET combination == Combination(project, task)
        k == IndexOf(rc, combination, 1)
        removed == IF k # 0 THEN RemoveAt(rc, k) ELSE rc
        inserted == <<combination>> \o removed
    IN  SubSeq(inserted, 1, Min(Len(inserted), RecentLimit))

\* ------------------------------------------------------- session store
\* JsonDatabase.get_active_session: position of the first active session,
\* 0 for None
get_active_session(ss) ==
    IF \E i \in DOMAIN ss : ss[i].is_active
    THEN CHOOSE i \in DOMAIN ss :
            ss[i].is_active /\ \A j \in 1..(i - 1) : ~ss[j].is_active
    ELSE 0

\* stop_active_session without the line that clears is_active
Stopped_KeepsActive(s, t) ==
    [s EXCEPT !.end_time = t,
              !.duration_seconds = IntSeconds(t - s.start_time)]

\* the record stop_active_session leaves in the active object
Stopped(s, t) ==
    [s EXCEPT !.end_time = t,
              !.is_active = FALSE,
              !.duration_seconds = IntSeconds(t - s.start_time)]

\* JsonDatabase.stop_active_session: the list afterwards
stop_active_session(ss, ob, t) ==
    LET a == get_active_session(ss)
    IN  IF a # 0 THEN SetObj(ss, ob, a, Stopped(ss[a], t)) ELSE ss

\* the session object JsonDatabase.create_session constructs
NewSession(id, project, task, session_type, t) ==
    TimeSession(id, t, NoneTime, project, task, 0, TRUE, session_type, "")

\* str(uuid.uuid4()): a value no earlier call returned
NextUuid == [kind |-> "uuid", n |-> uuids + 1]

\* f"session_{int(datetime.now().timestamp() * 1000)}"
TimestampId(t) == [kind |-> "session", n |-> t]

\* the session object JsonDatabase.add_session constructs
AddedSession(id, start_time, end_time, project, task, session_type, note) ==
    IF end_time # NoneTime
    THEN TimeSession(id, start_time, end_time, project, task,
                     IntSeconds(end_time - start_time), FALSE, session_type, note)
    ELSE TimeSession(id, start_time, NoneTime, project, task,
                     0, TRUE, session_type, note)

\* the position of the last session with that id, 0 if there is none
FindById_Last(ss, id) ==
    IF \E i \in DOMAIN ss : ss[i].id = id
    THEN CHOOSE i \in DOMAIN ss :
            ss[i].id = id /\ \A j \in (i + 1)..Len(ss) : ss[j].id # id
    ELSE 0

\* JsonDatabase.update_session: position of the first session with that id,
\* 0 if there is none
FindById(ss, id) ==
    IF \E i \in DOMAIN ss : ss[i].id = id
    THEN CHOOSE i \in DOMAIN ss :
            ss[i].id = id /\ \A j \in 1..(i - 1) : ss[j].id # id
    ELSE 0

\* an isoformat that writes whole seconds only
isoformat_WholeSeconds(t) ==
    <<"T", DateOf(t), ((t % DayMs) \div MsPerSecond) * MsPerSecond>>

\* datetime.isoformat(): the text of a datetime, date part and time part
isoformat(t) == <<"T", DateOf(t), t % DayMs>>

\* TimeSession.to_dict: the times as text, a missing end_time as null
to_dict(s) ==
    [s EXCEPT !.start_time = isoformat(s.start_time),
              !.end_time = IF s.end_time # NoneTime THEN isoformat(s.end_time)
                           ELSE <<"null">>]

\* the sessions file json.dump writes: one dictionary per session
SavedSessions(ss) ==
    [exists |-> TRUE, data |-> [i \in DOMAIN ss |-> to_dict(ss[i])]]

\* JsonDatabase.save_sessions: the file afterwards; a failed write is caught
\* and leaves the file as it was
save_sessions(ss, file, ok) == IF ok THEN SavedSessions(ss) ELSE file

\* datetime.fromisoformat(): the datetime a text spells
fromisoformat(x) == x[2] * DayMs + x[3]

\* the keys from_dict reads with data[...]; a dictionary without one of them
\* raises KeyError
RequiredKeys ==
    {"id", "start_time", "end_time", "project", "task", "duration_seconds",
     "is_active", "session_type"}

\* TimeSession.from_dict: a missing note defaults to the empty text
from_dict(data) ==
    TimeSession(data.id, fromisoformat(data.start_time),
                IF data.end_time # <<"null">> THEN fromisoformat(data.end_time)
                ELSE NoneTime,
                data.project, data.task, data.duration_seconds, data.is_active,
                data.session_type,
                IF "note" \in DOMAIN data THEN data.note ELSE "")

\* JsonDatabase.load_sessions: the list afterwards; no file gives the empty
\* list, and so does a file that json.load or from_dict raises on
load_sessions(file) ==
    IF ~file.exists THEN << >>
    ELSE IF \A i \in DOMAIN file.data : RequiredKeys \subseteq DOMAIN file.data[i]
         THEN [i \in DOMAIN file.data |-> from_dict(file.data[i])]
         ELSE << >>

\* sorted(..., key=lambda s: s.start_time): a stable sort by start_time
RECURSIVE InsertByStart(_, _)
InsertByStart(sorted, s) ==
    IF sorted = << >> THEN <<s>>
    ELSE IF s.start_time < Head(sorted).start_time THEN <<s>> \o sorted
         ELSE <<Head(sorted)>> \o InsertByStart(Tail(sorted), s)

RECURSIVE SortByStart(_)
SortByStart(ss) ==
    IF ss = << >> THEN << >>
    ELSE InsertByStart(SortByStart(SubSeq(ss, 1, Len(ss) - 1)), ss[Len(ss)])

\* today's sessions of the type in the order of the store, not sorted
get_today_sessions_Unsorted(ss, session_type, t) ==
    LET Today(s) == /\ DateOf(s.start_time) = DateOf(t)
                    /\ session_type = "any" \/ s.session_type = session_type
    IN  SelectSeq(ss, Today)

\* JsonDatabase.get_today_sessions(session_type); "any" stands for None
get_today_sessions(ss, session_type, t) ==
    LET Today(s) == /\ DateOf(s.start_time) = DateOf(t)
                    /\ session_type = "any" \/ s.session_type = session_type
    IN  SortByStart(SelectSeq(ss, Today))

\* what one session adds to a total of today's seconds
CountedSeconds(s, t) ==
    IF s.end_time # NoneTime THEN s.duration_seconds
    ELSE IF s.is_active THEN IntSeconds(t - s.start_time)
    ELSE 0

RECURSIVE SumCounted(_, _)
SumCounted(ss, t) ==
    IF ss = << >> THEN 0
    ELSE CountedSeconds(Head(ss), t) + SumCounted(Tail(ss), t)

\* JsonDatabase.get_today_work_seconds
get_today_work_seconds(ss, t) ==
    SumCounted(get_today_sessions(ss, "work", t), t)

\* JsonDatabase.get_today_break_seconds
get_today_break_seconds(ss, t) ==
    LET Break(s) == /\ DateOf(s.start_time) = DateOf(t)
                    /\ s.session_type = "break" \/ s.project = "BREAK"
    IN  SumCounted(SelectSeq(ss, Break), t)

\* a create_session that closes the sessions still active before it appends
create_session_ClosesActive(ss, id, project, task, session_type, t) ==
    Append([i \in DOMAIN ss |->
               IF ss[i].is_active THEN Stopped(ss[i], t) ELSE ss[i]],
           NewSession(id, project, task, session_type, t))

\* JsonDatabase.create_session: the list afterwards
create_session(ss, id, project, task, session_type, t) ==
    Append(ss, NewSession(id, project, task, session_type, t))

\* JsonDatabase.add_session: the list afterwards
add_session(ss, id, start_time, end_time, project, task, session_type, note) ==
    Append(ss, AddedSession(id, start_time, end_time, project, task,
                            session_type, note))

\* ------------------------------------------------------------ config.json
\* the configuration document as far as the model follows it: the auto-split
\* threshold, the work_hours section and, once embedded, projects_data
ConfigDocument(minutes, wh, embedded, rc, project, task) ==
    IF embedded
    THEN [auto_split_minutes |-> minutes, work_hours |-> wh,
          projects_data |-> [recent_combinations |-> rc,
                             active_project |-> project,
                             active_task |-> task]]
    ELSE [auto_split_minutes |-> minutes, work_hours |-> wh]

\* default_config of JsonDatabase.load_config
DefaultConfig ==
    ConfigDocument(DefaultAutoSplitMinutes, << >>, FALSE, << >>, "General",
                   "Daily Work")

\* JsonDatabase.save_config: the file afterwards
save_config(minutes, wh, embedded, rc, project, task) ==
    [exists |-> TRUE, valid |-> TRUE,
     data |-> ConfigDocument(minutes, wh, embedded, rc, project, task)]

\* no config.json in the data directory
NoFile == [exists |-> FALSE, valid |-> FALSE, data |-> [text |-> ""]]

\* no legacy projects.json in the directory
NoProjectsFile ==
    [exists |-> FALSE, valid |-> FALSE, has_projects |-> FALSE, data |-> [text |-> ""]]

\* no spreadsheet file in the directory yet
NoWorkbook ==
    [exists |-> FALSE, locked |-> FALSE, sheets |-> [sessions |-> << >>, evaluation |-> << >>]]

\* ------------------------------------------- the legacy SessionManager
\* WorkSession as far as the model follows it; times in ms, NoneTime for None
WorkSession(start, end, duration, note, project) ==
    [start |-> start, end |-> end, duration |-> duration, note |-> note,
     project |-> project]

\* current_session is None
NoWorkSession == WorkSession(NoneTime, NoneTime, NoneTime, "", "")

\* SessionManager() constructed without an excel_manager
NewSessionManager ==
    [current_session |-> NoWorkSession,
     sessions |-> << >>,
     total_work_time |-> 0,
     total_pause_time |-> 0,
     pause_start |-> NoneTime,
     is_working |-> FALSE,
     current_session_note |-> "",
     current_session_project |-> ""]

\* Python's "x or default" for a string
OrDefault(text, default) == IF text = "" THEN default ELSE text

\* SessionManager.start_session(project) while no session runs
legacy_start_session(m, project, t) ==
    [m EXCEPT !.total_pause_time = IF m.pause_start # NoneTime
                                   THEN @ + (t - m.pause_start) ELSE @,
              !.pause_start = NoneTime,
              !.current_session = WorkSession(t, NoneTime, NoneTime, "", project),
              !.current_session_note = "",
              !.current_session_project = project,
              !.is_working = TRUE]

\* the session stop_session and finish_current_session complete
Completed(m, t, note) ==
    [m.current_session EXCEPT
        !.end = t,
        !.duration = t - m.current_session.start,
        !.note = OrDefault(m.current_session_note, note),
        !.project = OrDefault(m.current_session_project, "Allgemein")]

\* SessionManager.stop_session
legacy_stop_session(m, t) ==
    IF ~m.is_working \/ m.current_session = NoWorkSession THEN m
    ELSE LET done == Completed(m, t, "Session ended")
         IN  [m EXCEPT !.sessions = Append(@, done),
                       !.total_work_time = @ + done.duration,
                       !.current_session = NoWorkSession,
                       !.current_session_note = "",
                       !.current_session_project = "",
                       !.is_working = FALSE,
                       !.pause_start = t]

\* SessionManager.switch_project(new_project)
legacy_switch_project(m, new_project, t) ==
    IF m.is_working /\ m.current_session # NoWorkSession
    THEN legacy_start_session(legacy_stop_session(m, t), new_project, t)
    ELSE [m EXCEPT !.current_session_project = new_project]

\* SessionManager.finish_current_session
legacy_finish_current_session(m, t) ==
    IF m.is_working /\ m.current_session # NoWorkSession
    THEN LET done == Completed(m, t, "[Auto-finished]")
         IN  [m EXCEPT !.sessions = Append(@, done),
                       !.total_work_time = @ + done.duration,
                       !.is_working = FALSE,
                       !.current_session = NoWorkSession,
                       !.current_session_note = "",
                       !.current_session_project = ""]
    ELSE m

\* the sum _recalculate_totals forms over the sessions that have an end:
\* those of project "BREAK" if breaks is TRUE, the others if it is FALSE
RECURSIVE RecalculatedTotal(_, _)
RecalculatedTotal(ss, breaks) ==
    IF ss = << >> THEN 0
    ELSE (IF Head(ss).end # NoneTime /\ (Head(ss).project = "BREAK") = breaks
          THEN Head(ss).end - Head(ss).start ELSE 0)
         + RecalculatedTotal(Tail(ss), breaks)

\* SessionManager._recalculate_totals
legacy_recalculate_totals(m) ==
    [m EXCEPT !.total_work_time = RecalculatedTotal(m.sessions, FALSE),
              !.total_pause_time = RecalculatedTotal(m.sessions, TRUE)]

\* SessionManager.update_session(session_index, start, end, project, note),
\* with the index counted from 0
legacy_update_session(m, session_index, start, end, project, note) ==
    IF 0 <= session_index /\ session_index < Len(m.sessions)
    THEN legacy_recalculate_totals(
            [m EXCEPT !.sessions[session_index + 1] =
                WorkSession(start, end,
                            IF end # NoneTime THEN end - start ELSE NoneTime,
                            note, project)])
    ELSE m

\* SessionManager.update_sessions(sessions)
legacy_update_sessions(m, ss) == [m EXCEPT !.sessions = ss]

\* SessionManager.delete_session(index), with the index counted from 0
legacy_delete_session(m, index) ==
    IF 0 <= index /\ index < Len(m.sessions)
    THEN [m EXCEPT !.sessions = RemoveAt(@, index + 1)]
    ELSE m

\* ----------------------------------------------------------------- Init
\* a first start in an empty data directory: no sessions file, the default
\* configuration, no projects_data
Init ==
    /\ sessions = << >>
    /\ objs = << >>
    /\ sessions_file = [exists |-> FALSE, data |-> << >>]
    /\ recent = << >>
    /\ active_project = "General"
    /\ active_task = "Daily Work"
    /\ auto_split_minutes = DefaultAutoSplitMinutes
    /\ work_hours = << >>
    /\ current_project = "General"
    /\ current_task = "Daily Work"
    /\ is_running = FALSE
    /\ refresh_pending = FALSE
    /\ window = "open"
    /\ export = "none"
    /\ now = 0
    /\ ticks = 0
    /\ uuids = 0
    /\ steps = 0
    /\ last = Call("init", NoId)
    /\ projects_embedded = FALSE
    /\ config_file = save_config(DefaultAutoSplitMinutes, << >>, FALSE, << >>,
                                 "General", "Daily Work")
    /\ config = << >>
    /\ workbook = NoWorkbook
    /\ projects_file = NoProjectsFile
    /\ session_manager = NewSessionManager

\* the wall clock advances
Tick ==
    /\ window = "open"
    /\ ticks < MaxTicks
    /\ \E d \in TickSteps : now' = now + d
    /\ ticks' = ticks + 1
    /\ UNCHANGED <<last, sessions, objs, sessions_file, recent, active_project,
                   active_task, auto_split_minutes, current_project,
                   current_task, is_running, refresh_pending, window, export,
                   uuids, steps>>
    /\ UNCHANGED work_hours
    /\ UNCHANGED <<projects_embedded, config_file>>
    /\ UNCHANGED config
    /\ UNCHANGED workbook
    /\ UNCHANGED projects_file
    /\ UNCHANGED session_manager

\* --------------------------------------------- calls on the store alone
\* create_session(project, task, session_type)
CreateSessionCall ==
    /\ steps < MaxSteps
    /\ steps' = steps + 1
    /\ Len(sessions) < MaxSessions
    /\ \E c \in InputCombos, ty \in SessionTypes :
          /\ ty = "break" <=> c[1] = "BREAK"
          /\ sessions' = create_session(sessions, NextUuid, c[1], c[2], ty, now)
          /\ recent' = update_recent_combination(recent, c[1], c[2])
          /\ last' = Call("create_session", NextUuid)
    /\ objs' = Append(objs, NewObj(objs))
    /\ uuids' = uuids + 1
    /\ UNCHANGED <<sessions_file, active_project, active_task,
                   auto_split_minutes, current_project, current_task,
                   is_running, refresh_pending, window, export, now, ticks>>
    /\ UNCHANGED work_hours
    /\ UNCHANGED <<projects_embedded, config_file>>
    /\ UNCHANGED config
    /\ UNCHANGED workbook
    /\ UNCHANGED projects_file
    /\ UNCHANGED session_manager

\* stop_active_session()
StopActiveSessionCall ==
    /\ steps < MaxSteps
    /\ steps' = steps + 1
    /\ sessions' = stop_active_session(sessions, objs, now)
    /\ last' = Call("stop_active_session",
                    IF get_active_session(sessions) = 0 THEN NoId
                    ELSE sessions[get_active_session(sessions)].id)
    /\ UNCHANGED <<objs, sessions_file, recent, active_project, active_task,
                   auto_split_minutes, current_project, current_task,
                   is_running, refresh_pending, window, export, now, ticks,
                   uuids>>
    /\ UNCHANGED work_hours
    /\ UNCHANGED <<projects_embedded, config_file>>
    /\ UNCHANGED config
    /\ UNCHANGED workbook
    /\ UNCHANGED projects_file
    /\ UNCHANGED session_manager

\* add_session(start_time, end_time, project, task, session_type, note)
AddSessionCall ==
    /\ steps < MaxSteps
    /\ steps' = steps + 1
    /\ Len(sessions) < MaxSessions
    /\ \E c \in {<<"General", "Daily Work">>}, ty \in {"work"}, day \in {0},
          m1 \in {0}, in \in {<<5, "memo">>, <<EmptyText, "">>} :
          LET start_time == DateTimeOfMinutes(day, m1)
              end_time == IF in[1] = EmptyText THEN NoneTime
                          ELSE DateTimeOfMinutes(day, in[1])
          IN  /\ sessions' = add_session(sessions, TimestampId(now), start_time,
                                         end_time, c[1], c[2], ty, in[2])
              /\ last' = Call("add_session", TimestampId(now))
    /\ objs' = Append(objs, NewObj(objs))
    /\ UNCHANGED <<sessions_file, recent, active_project, active_task,
                   auto_split_minutes, current_project, current_task,
                   is_running, refresh_pending, window, export, now, ticks,
                   uuids>>
    /\ UNCHANGED work_hours
    /\ UNCHANGED <<projects_embedded, config_file>>
    /\ UNCHANGED config
    /\ UNCHANGED workbook
    /\ UNCHANGED projects_file
    /\ UNCHANGED session_manager

StoreNext ==
    \/ Tick
    \/ CreateSessionCall
    \/ StopActiveSessionCall
    \/ AddSessionCall

StoreSpec == Init /\ [][StoreNext]_vars

\* ------------------------------------------- the store and its sessions file
\* save_sessions(): the file takes the list; nothing in memory changes
SaveSessionsCall ==
    /\ sessions_file # save_sessions(sessions, sessions_file, TRUE)
    /\ sessions_file' = save_sessions(sessions, sessions_file, TRUE)
    /\ UNCHANGED <<sessions, objs, recent, active_project, active_task,
                   auto_split_minutes, current_project, current_task,
                   is_running, refresh_pending, window, export, now, ticks,
                   uuids, steps, last>>
    /\ UNCHANGED work_hours
    /\ UNCHANGED <<projects_embedded, config_file>>
    /\ UNCHANGED config
    /\ UNCHANGED workbook
    /\ UNCHANGED projects_file
    /\ UNCHANGED session_manager

\* load_sessions(), as a new JsonDatabase runs it: every record of the file
\* becomes a new object
LoadSessionsCall ==
    /\ steps < MaxSteps
    /\ steps' = steps + 1
    /\ sessions' = load_sessions(sessions_file)
    /\ objs' = [i \in DOMAIN sessions' |-> i]
    /\ last' = Call("load_sessions", [kind |-> "loaded", n |-> Len(sessions')])
    /\ UNCHANGED <<sessions_file, recent, active_project, active_task,
                   auto_split_minutes, current_project, current_task,
                   is_running, refresh_pending, window, export, now, ticks,
                   uuids>>
    /\ UNCHANGED work_hours
    /\ UNCHANGED <<projects_embedded, config_file>>
    /\ UNCHANGED config
    /\ UNCHANGED workbook
    /\ UNCHANGED projects_file
    /\ UNCHANGED session_manager

FileNext ==
    \/ Tick
    \/ CreateSessionCall
    \/ StopActiveSessionCall
    \/ AddSessionCall
    \/ SaveSessionsCall
    \/ LoadSessionsCall

FileSpec == Init /\ [][FileNext]_vars

\* the button state update_display derives from the store
RunningShown(ss) ==
    LET a == get_active_session(ss)
    IN  a # 0 /\ ss[a].session_type = "work"

\* ------------------------------------------- the recent combinations
\* projects the user has worked on, each with the task "Review"
RecentProjects ==
    <<"P1", "P2", "P3", "P4", "P5", "P6", "P7", "P8", "P9", "P10", "P11">>

\* recent_combinations as config.json may hold it at start: empty, nearly
\* full and full, most recent first
RecentChoices ==
    {[i \in 1..n |-> Combination(RecentProjects[i], "Review")] :
        n \in {0, RecentLimit - 1, RecentLimit}}

\* the projects the calls name: the first, a middle and the last entry of
\* the list, and one that is not in it
RecentInputs == {RecentProjects[k] : k \in {1, 5, RecentLimit, RecentLimit + 1}}

RecentInit ==
    /\ recent \in RecentChoices
    /\ sessions = << >>
    /\ objs = << >>
    /\ sessions_file = [exists |-> FALSE, data |-> << >>]
    /\ active_project = "General"
    /\ active_task = "Daily Work"
    /\ auto_split_minutes = DefaultAutoSplitMinutes
    /\ work_hours = << >>
    /\ current_project = "General"
    /\ current_task = "Daily Work"
    /\ is_running = FALSE
    /\ refresh_pending = FALSE
    /\ window = "open"
    /\ export = "none"
    /\ now = 0
    /\ ticks = 0
    /\ uuids = 0
    /\ steps = 0
    /\ last = Call("init", NoId)
    /\ projects_embedded = FALSE
    /\ config_file = save_config(DefaultAutoSplitMinutes, << >>, FALSE, << >>,
                                 "General", "Daily Work")
    /\ config = << >>
    /\ workbook = NoWorkbook
    /\ projects_file = NoProjectsFile
    /\ session_manager = NewSessionManager

\* update_recent_combination(project, task)
UpdateRecentCombinationCall ==
    /\ steps < MaxSteps
    /\ steps' = steps + 1
    /\ \E project \in RecentInputs :
          /\ recent' = update_recent_combination(recent, project, "Review")
          /\ last' = Call("update_recent_combination",
                          Combination(project, "Review"))
    /\ UNCHANGED <<sessions, objs, sessions_file, active_project, active_task,
                   auto_split_minutes, current_project, current_task,
                   is_running, refresh_pending, window, export, now, ticks,
                   uuids, work_hours>>
    /\ UNCHANGED <<projects_embedded, config_file>>
    /\ UNCHANGED config
    /\ UNCHANGED workbook
    /\ UNCHANGED projects_file
    /\ UNCHANGED session_manager

\* set_active_project_task(project, task)
SetActiveProjectTaskCall ==
    /\ steps < MaxSteps
    /\ steps' = steps + 1
    /\ \E project \in RecentInputs :
          /\ active_project' = project
          /\ active_task' = "Review"
          /\ recent' = update_recent_combination(recent, project, "Review")
    /\ last' = Call("set_active_project_task", NoId)
    /\ UNCHANGED <<sessions, objs, sessions_file, auto_split_minutes,
                   current_project, current_task, is_running, refresh_pending,
                   window, export, now, ticks, uuids, work_hours>>
    /\ projects_embedded' = TRUE
    /\ config_file' = save_config(auto_split_minutes, work_hours, TRUE, recent',
                                  active_project', active_task')
    /\ UNCHANGED config
    /\ UNCHANGED workbook
    /\ UNCHANGED projects_file
    /\ UNCHANGED session_manager

RecentNext ==
    \/ UpdateRecentCombinationCall
    \/ SetActiveProjectTaskCall
    \/ CreateSessionCall

RecentSpec == RecentInit /\ [][RecentNext]_vars

\* ------------------------------------------------------ loading at start
\* JsonDatabase.load_config and _post_load_projects_migration: the
\* configuration in memory and the file afterwards. A file that json.load
\* raises on (empty or not JSON) takes the except branch, which does not save.
load_config(file) ==
    IF ~file.exists
    THEN [data |-> DefaultConfig, file |-> [exists |-> TRUE, valid |-> TRUE, data |-> DefaultConfig]]
    ELSE IF ~file.valid
         THEN [data |-> DefaultConfig, file |-> file]
         ELSE [data |-> IF "auto_split_minutes" \in DOMAIN file.data
                        THEN file.data
                        ELSE [auto_split_minutes |-> DefaultAutoSplitMinutes]
                             @@ file.data,
               file |-> file]

\* config_data.get('work_hours', {})
WorkHoursOf(data) ==
    IF "work_hours" \in DOMAIN data THEN data.work_hours ELSE << >>

\* the projects_data of a loaded configuration, with the getters' defaults
\* when the key is absent
ProjectsDataOf(data) ==
    IF "projects_data" \in DOMAIN data THEN data.projects_data
    ELSE [recent_combinations |-> << >>, active_project |-> "General",
          active_task |-> "Daily Work"]

\* a migration that takes the legacy file whenever it is there
post_load_projects_migration_LegacyFirst(data, legacy) ==
    IF legacy.exists /\ legacy.valid /\ legacy.has_projects
    THEN [data |-> [k \in DOMAIN data \cup {"projects_data"} |->
                       IF k = "projects_data" THEN legacy.data ELSE data[k]],
          saved |-> TRUE]
    ELSE [data |-> data, saved |-> FALSE]

\* JsonDatabase._post_load_projects_migration: the configuration in memory
\* afterwards, and whether save_config has run. A legacy document counts when
\* it parses and has the key 'projects'; of its content the model follows the
\* recent combinations and the active project and task.
post_load_projects_migration(data, legacy) ==
    IF "projects_data" \in DOMAIN data THEN [data |-> data, saved |-> FALSE]
    ELSE IF legacy.exists /\ legacy.valid /\ legacy.has_projects
         THEN [data |-> [projects_data |-> legacy.data] @@ data, saved |-> TRUE]
         ELSE [data |-> data, saved |-> FALSE]

\* a legacy projects.json of an older version
LegacyProjectsFile ==
    [exists |-> TRUE, valid |-> TRUE, has_projects |-> TRUE,
     data |-> [recent_combinations |-> <<Combination("Legacy", "Old Task")>>,
               active_project |-> "Legacy", active_task |-> "Old Task"]]

\* the legacy files a data directory may hold: none, one that is not JSON, a
\* document without the key 'projects', and a complete one
ProjectsFiles ==
    {NoProjectsFile,
     [NoProjectsFile EXCEPT !.exists = TRUE, !.data = [text |-> "{"]],
     [LegacyProjectsFile EXCEPT !.has_projects = FALSE],
     LegacyProjectsFile}

\* the user puts a projects.json of an older version into the directory, or
\* takes it out
ProjectsFileReplaced ==
    /\ projects_file' \in ProjectsFiles
    /\ projects_file' # projects_file
    /\ UNCHANGED <<sessions, objs, sessions_file, recent, active_project,
                   active_task, auto_split_minutes, current_project,
                   current_task, is_running, refresh_pending, window, export,
                   now, ticks, uuids, steps, last, work_hours,
                   projects_embedded, config_file, config, workbook,
                   session_manager>>

\* a sessions file that is empty or not the JSON of a session list
MalformedSessionsFile == [exists |-> TRUE, data |-> <<[id |-> "x"]>>]

\* a config.json whose text is not JSON
MalformedConfigFile == [exists |-> TRUE, valid |-> FALSE, data |-> [text |-> "{"]]

\* a config.json written by an older version: no auto_split_minutes key
OlderConfigFile ==
    [exists |-> TRUE, valid |-> TRUE, data |-> [work_hours |-> (0 :> 1)]]

\* the user deletes or damages sessions.json between two runs
SessionsFileReplaced ==
    /\ sessions_file' \in {[exists |-> FALSE, data |-> << >>],
                           MalformedSessionsFile}
    /\ sessions_file' # sessions_file
    /\ UNCHANGED <<sessions, objs, recent, active_project, active_task,
                   auto_split_minutes, current_project, current_task,
                   is_running, refresh_pending, window, export, now, ticks,
                   uuids, steps, last, work_hours, projects_embedded,
                   config_file>>
    /\ UNCHANGED config
    /\ UNCHANGED workbook
    /\ UNCHANGED projects_file
    /\ UNCHANGED session_manager

\* the user deletes, damages or replaces config.json between two runs
ConfigFileReplaced ==
    /\ config_file' \in {NoFile, MalformedConfigFile, OlderConfigFile}
    /\ config_file' # config_file
    /\ UNCHANGED <<sessions, objs, sessions_file, recent, active_project,
                   active_task, auto_split_minutes, current_project,
                   current_task, is_running, refresh_pending, window, export,
                   now, ticks, uuids, steps, last, work_hours,
                   projects_embedded>>
    /\ UNCHANGED config
    /\ UNCHANGED workbook
    /\ UNCHANGED projects_file
    /\ UNCHANGED session_manager

\* JsonDatabase.load_all_data(), as the constructor runs it at the next start
LoadAllDataCall ==
    /\ steps < MaxSteps
    /\ steps' = steps + 1
    /\ sessions' = load_sessions(sessions_file)
    /\ objs' = [i \in DOMAIN sessions' |-> i]
    /\ LET c == load_config(config_file)
           m == post_load_projects_migration(c.data, projects_file)
           pd == ProjectsDataOf(m.data)
       IN  /\ config_file' = IF m.saved
                             THEN [exists |-> TRUE, valid |-> TRUE, data |-> m.data]
                             ELSE c.file
           /\ auto_split_minutes' = m.data.auto_split_minutes
           /\ work_hours' = WorkHoursOf(m.data)
           /\ projects_embedded' = ("projects_data" \in DOMAIN m.data)
           /\ recent' = pd.recent_combinations
           /\ active_project' = pd.active_project
           /\ active_task' = pd.active_task
    /\ last' = Call("load_all_data", NoId)
    /\ UNCHANGED <<sessions_file, current_project, current_task, is_running,
                   refresh_pending, window, export, now, ticks, uuids>>
    /\ UNCHANGED config
    /\ UNCHANGED workbook
    /\ UNCHANGED projects_file
    /\ UNCHANGED session_manager

LoadNext ==
    \/ CreateSessionCall
    \/ SaveSessionsCall
    \/ SetActiveProjectTaskCall
    \/ SessionsFileReplaced
    \/ ConfigFileReplaced
    \/ LoadAllDataCall

LoadSpec == Init /\ [][LoadNext]_vars

\* starts of the program in a directory that may hold a legacy projects.json
MigrationNext ==
    \/ SetActiveProjectTaskCall
    \/ ConfigFileReplaced
    \/ ProjectsFileReplaced
    \/ LoadAllDataCall

MigrationSpec == Init /\ [][MigrationNext]_vars

\* --------------------------------------------------------- ConfigManager
\* the keys _validate_config requires
ManagerRequiredKeys == {"work_hours", "excel_file"}

\* the document of _create_default_config, as far as the model follows it:
\* eight hours Monday to Friday, none at the weekend
DefaultManagerConfig ==
    [work_hours |-> [d \in 0 .. DaysPerWeek - 1 |-> IF d < 5 THEN 8 ELSE 0],
     excel_file |-> "working_hours.xlsx"]

\* ConfigManager.save_config: the file afterwards
ManagerSaved(document) == [exists |-> TRUE, valid |-> TRUE, data |-> document]

\* validate_config requiring work_hours alone
validate_config_WorkHoursOnly(document) == "work_hours" \in DOMAIN document

\* ConfigManager._validate_config: no KeyError
validate_config(document) == ManagerRequiredKeys \subseteq DOMAIN document

\* ConfigManager.load_config: why the file was not taken, the configuration
\* in memory and the file afterwards
ManagerLoad(file) ==
    LET created(why) == [kind |-> why, config |-> DefaultManagerConfig, file |-> ManagerSaved(DefaultManagerConfig)]
    IN  IF ~file.exists THEN created("missing")
        ELSE IF ~file.valid
             THEN IF file.data.text = " " THEN created("empty")
                  ELSE created("not json")
             ELSE IF validate_config(file.data)
                  THEN [kind |-> "loaded", config |-> file.data, file |-> file]
                  ELSE created("key missing")

\* a config.json with nothing but white space in it
EmptyConfigFile == [exists |-> TRUE, valid |-> FALSE, data |-> [text |-> " "]]

\* a complete document with hours of the user's own
OwnManagerConfig ==
    [work_hours |-> [d \in 0 .. DaysPerWeek - 1 |-> 6], excel_file |-> "hours.xlsx"]

\* the files a ConfigManager can find: none, an empty one, one that is not
\* JSON, documents lacking one required key, the document the session store
\* writes, and complete documents
ManagerFiles ==
    {NoFile, EmptyConfigFile, MalformedConfigFile,
     ManagerSaved([work_hours |-> OwnManagerConfig.work_hours]),
     ManagerSaved([excel_file |-> "hours.xlsx"]),
     ManagerSaved(DefaultConfig),
     ManagerSaved(OwnManagerConfig),
     ManagerSaved(DefaultManagerConfig)}

\* ConfigManager(): the constructor loads the file it finds
ConfigInit ==
    /\ \E f \in ManagerFiles :
          /\ config = ManagerLoad(f).config
          /\ config_file = ManagerLoad(f).file
    /\ sessions = << >>
    /\ objs = << >>
    /\ sessions_file = [exists |-> FALSE, data |-> << >>]
    /\ recent = << >>
    /\ active_project = "General"
    /\ active_task = "Daily Work"
    /\ auto_split_minutes = DefaultAutoSplitMinutes
    /\ work_hours = << >>
    /\ projects_embedded = FALSE
    /\ current_project = "General"
    /\ current_task = "Daily Work"
    /\ is_running = FALSE
    /\ refresh_pending = FALSE
    /\ window = "open"
    /\ export = "none"
    /\ now = 0
    /\ ticks = 0
    /\ uuids = 0
    /\ steps = 0
    /\ last = Call("init", NoId)
    /\ workbook = NoWorkbook
    /\ projects_file = NoProjectsFile
    /\ session_manager = NewSessionManager

\* what a ConfigManager action leaves alone
ManagerFrame ==
    UNCHANGED <<sessions, objs, sessions_file, recent, active_project,
                active_task, auto_split_minutes, work_hours,
                projects_embedded, current_project, current_task, is_running,
                refresh_pending, window, export, now, ticks, uuids,
                workbook,
                projects_file,
                session_manager>>

\* ConfigManager.load_config()
ManagerLoadConfigCall ==
    /\ steps < MaxSteps
    /\ steps' = steps + 1
    /\ config' = ManagerLoad(config_file).config
    /\ config_file' = ManagerLoad(config_file).file
    /\ last' = Call("ConfigManager.load_config", [kind |-> ManagerLoad(config_file).kind, n |-> 0])
    /\ ManagerFrame

\* ConfigManager.set('excel_file', value) and set('work_hours', value)
ManagerSetCall ==
    /\ steps < MaxSteps
    /\ steps' = steps + 1
    /\ \/ config' = [config EXCEPT !.excel_file = "export.xlsx"]
       \/ config' = [config EXCEPT !.work_hours = [d \in 0 .. DaysPerWeek - 1 |-> 4]]
    /\ last' = Call("ConfigManager.set", NoId)
    /\ UNCHANGED config_file
    /\ ManagerFrame

\* ConfigManager.save_config()
ManagerSaveConfigCall ==
    /\ steps < MaxSteps
    /\ steps' = steps + 1
    /\ config_file' = ManagerSaved(config)
    /\ last' = Call("ConfigManager.save_config", NoId)
    /\ UNCHANGED config
    /\ ManagerFrame

\* the user deletes, damages or replaces config.json
ManagerFileReplaced ==
    /\ config_file' \in ManagerFiles
    /\ config_file' # config_file
    /\ UNCHANGED <<config, steps, last>>
    /\ ManagerFrame

ConfigNext ==
    \/ ManagerLoadConfigCall
    \/ ManagerSetCall
    \/ ManagerSaveConfigCall
    \/ ManagerFileReplaced

ConfigSpec == ConfigInit /\ [][ConfigNext]_vars

\* ------------------------------------------------ reports and queries
\* date.weekday(): 0 is Monday; day 0 of the model is a Monday
Weekday(day) == day % DaysPerWeek

\* work_hours_config.get(weekday_name, 8.0)
Target(wh, day) ==
    IF Weekday(day) \in DOMAIN wh THEN wh[Weekday(day)] ELSE DefaultTargetHours

\* the dual break tag: session_type == 'break' or project == 'BREAK'
IsBreak(s) == s.session_type = "break" \/ s.project = "BREAK"

\* a work filter that looks at the session type alone
IsWork_TypeOnly(s) == s.session_type # "break"

\* the work filter of _evaluation_sheet
IsWork(s) == s.session_type # "break" /\ s.project # "BREAK"

\* round(hours, 2) of a time in milliseconds: hundredths of an hour, the
\* nearest one
RoundHours(ms) == (ms + HundredthHourMs \div 2) \div HundredthHourMs

\* (x.end_time - x.start_time) of a list of closed sessions, added up
RECURSIVE SumElapsed(_)
SumElapsed(ss) ==
    IF ss = << >> THEN 0
    ELSE (Head(ss).end_time - Head(ss).start_time) + SumElapsed(Tail(ss))

\* the status test with a strict comparison against the target
Status_Strict(work_ms, target) ==
    IF work_ms = 0 THEN "no work"
    ELSE IF work_ms > target * SecondsPerHour * MsPerSecond
         THEN "target reached"
         ELSE "below target"

\* the status of a day in _evaluation_sheet; work_h and target are hours in
\* the code, here both sides of the comparison are milliseconds
Status(work_ms, target) ==
    IF work_ms = 0 THEN "no work"
    ELSE IF work_ms >= target * SecondsPerHour * MsPerSecond
         THEN "target reached"
         ELSE "below target"

\* the closed sessions of a list that start on a day
ClosedOn(ss, day) ==
    LET Test(s) == s.end_time # NoneTime /\ DateOf(s.start_time) = day
    IN  SelectSeq(ss, Test)

\* ExcelReportManager._evaluation_sheet: one row for every date that has a
\* closed session
evaluation_sheet(ss, wh) ==
    LET dates == {DateOf(ss[i].start_time) :
                     i \in {j \in DOMAIN ss : ss[j].end_time # NoneTime}}
    IN  [d \in dates |->
            LET day_sessions == ClosedOn(ss, d)
                work == SumElapsed(SelectSeq(day_sessions, IsWork))
                brks == SumElapsed(SelectSeq(day_sessions, IsBreak))
                all_sorted == SortByStart(day_sessions)
            IN  [start |-> FormatHMS(all_sorted[1].start_time),
                 end |-> FormatHMS(all_sorted[Len(all_sorted)].end_time),
                 work |-> work, brk |-> brks, total |-> work + brks,
                 work_cell |-> RoundHours(work), break_cell |-> RoundHours(brks),
                 total_cell |-> RoundHours(work + brks),
                 target |-> Target(wh, d),
                 status |-> Status(work, Target(wh, d))]]

\* what a session of a drawn list looks like: when it starts, how long it
\* runs (NoneTime while it is still active), its project and its type
QueryStarts ==
    {0, DayMs + 10 * SecondsPerMinute * MsPerSecond,
     DayMs + 30 * SecondsPerMinute * MsPerSecond}
QueryLengths ==
    {NoneTime, 30 * SecondsPerMinute * MsPerSecond, SecondsPerHour * MsPerSecond}
QueryShapes ==
    [start : QueryStarts, length : QueryLengths,
     project : {"General", "BREAK"}, session_type : SessionTypes]

\* the work_hours sections a config.json may hold: none, or targets for
\* Monday and Tuesday
WorkHoursChoices == {<< >>, (0 :> 0) @@ (1 :> 1), (0 :> 1) @@ (1 :> 0)}

\* the moment the queries run: the second day, 02:00
QueryNow == DayMs + 2 * SecondsPerHour * MsPerSecond

\* the session a shape stands for, as add_session or a stopped create_session
\* leaves it
ShapedSession(i, sh) ==
    IF sh.length = NoneTime
    THEN TimeSession([kind |-> "uuid", n |-> i], sh.start, NoneTime,
                     sh.project, "Daily Work", 0, TRUE, sh.session_type, "")
    ELSE TimeSession([kind |-> "uuid", n |-> i], sh.start,
                     sh.start + sh.length, sh.project, "Daily Work",
                     IntSeconds(sh.length), FALSE, sh.session_type, "")

\* a store holding some list of sessions, and a configuration
QueryInit ==
    /\ \E n \in 0..MaxQueryLen : \E f \in [1..n -> QueryShapes] :
          sessions = [i \in 1..n |-> ShapedSession(i, f[i])]
    /\ objs = [i \in DOMAIN sessions |-> i]
    /\ work_hours \in WorkHoursChoices
    /\ sessions_file = [exists |-> FALSE, data |-> << >>]
    /\ recent = << >>
    /\ active_project = "General"
    /\ active_task = "Daily Work"
    /\ auto_split_minutes = DefaultAutoSplitMinutes
    /\ current_project = "General"
    /\ current_task = "Daily Work"
    /\ is_running = FALSE
    /\ refresh_pending = FALSE
    /\ window = "open"
    /\ export = "none"
    /\ now = QueryNow
    /\ ticks = 0
    /\ uuids = Len(sessions)
    /\ steps = 0
    /\ last = Call("init", NoId)
    /\ projects_embedded = FALSE
    /\ config_file = save_config(DefaultAutoSplitMinutes, work_hours, FALSE, << >>,
                                 "General", "Daily Work")
    /\ config = << >>
    /\ workbook = NoWorkbook
    /\ projects_file = NoProjectsFile
    /\ session_manager = NewSessionManager

\* a query is made on the store as drawn, and changes nothing but the record
\* of the last call
Query ==
    /\ steps = 0
    /\ steps' = steps + 1
    /\ UNCHANGED <<sessions, objs, sessions_file, recent, active_project,
                   active_task, auto_split_minutes, current_project,
                   current_task, is_running, refresh_pending, window, export,
                   now, ticks, uuids, work_hours>>
    /\ UNCHANGED workbook
    /\ UNCHANGED projects_file
    /\ UNCHANGED session_manager

\* _evaluation_sheet(json_db.sessions, json_db)
EvaluationSheetCall ==
    /\ Query
    /\ last' = Call("evaluation_sheet", evaluation_sheet(sessions, work_hours))
    /\ UNCHANGED <<projects_embedded, config_file>>
    /\ UNCHANGED config

\* JsonDatabase.get_today_required_work_seconds: int(daily_hours * 3600)
get_today_required_work_seconds(wh, t) == Target(wh, DateOf(t)) * SecondsPerHour

\* the three totals update_display writes into its labels
DisplayedTimes(ss, wh, t) ==
    LET work_seconds == get_today_work_seconds(ss, t)
        break_seconds == get_today_break_seconds(ss, t)
        required_work_seconds == get_today_required_work_seconds(wh, t)
        net_work_seconds == work_seconds - break_seconds
    IN  [work |-> work_seconds, brk |-> break_seconds,
         required |-> required_work_seconds,
         remaining |-> Max(0, required_work_seconds - net_work_seconds)]

\* update_display called on a store as it stands, the labels it shows kept
\* as the result of the call
UpdateDisplayCall ==
    /\ steps = 0
    /\ steps' = steps + 1
    /\ is_running' = RunningShown(sessions)
    /\ last' = Call("update_display", DisplayedTimes(sessions, work_hours, now))
    /\ UNCHANGED <<sessions, objs, sessions_file, recent, active_project,
                   active_task, auto_split_minutes, current_project,
                   current_task, refresh_pending, window, export, now, ticks,
                   uuids, work_hours>>
    /\ UNCHANGED <<projects_embedded, config_file>>
    /\ UNCHANGED config
    /\ UNCHANGED workbook
    /\ UNCHANGED projects_file
    /\ UNCHANGED session_manager

\* ExcelReportManager._daily_totals: for every date with a closed session the
\* hours of work and of break, their total, and the id of the first session
daily_totals(ss) ==
    LET dates == {DateOf(ss[i].start_time) :
                     i \in {j \in DOMAIN ss : ss[j].end_time # NoneTime}}
        NotBreak(s) == ~IsBreak(s)
    IN  [d \in dates |->
            LET sess == SortByStart(ClosedOn(ss, d))
                work == SumElapsed(SelectSeq(sess, NotBreak))
                brks == SumElapsed(SelectSeq(sess, IsBreak))
            IN  [work |-> work, brk |-> brks, total |-> work + brks,
                 first_id |-> sess[1].id]]

\* ExcelReportManager._sessions_sheet: one row for every closed session, in
\* the order of the store; the day's totals are in the first session's row
\* and the other rows have blank cells (EmptyText) there
sessions_sheet(ss) ==
    LET daily == daily_totals(ss)
        Closed(s) == s.end_time # NoneTime
        closed == SelectSeq(ss, Closed)
    IN  [i \in DOMAIN closed |->
            LET s == closed[i]
                info == daily[DateOf(s.start_time)]
                first == info.first_id = s.id
            IN  [date |-> DateOf(s.start_time), id |-> s.id,
                 start_cell |-> FormatHMS(s.start_time),
                 end_cell |-> FormatHMS(s.end_time),
                 duration_cell |-> RoundHours(s.end_time - s.start_time),
                 work_cell |-> IF first THEN RoundHours(info.work) ELSE EmptyText,
                 break_cell |-> IF first THEN RoundHours(info.brk) ELSE EmptyText,
                 total_cell |-> IF first THEN RoundHours(info.total) ELSE EmptyText]]

\* _sessions_sheet(json_db.sessions), with the day totals it works from
SessionsSheetCall ==
    /\ Query
    /\ last' = Call("sessions_sheet",
                    [daily |-> daily_totals(sessions),
                     rows |-> sessions_sheet(sessions)])
    /\ UNCHANGED <<projects_embedded, config_file, config>>

\* _sessions_sheet(json_db.sessions) on a store that calls have filled
ListSessionsCall ==
    /\ steps < MaxSteps
    /\ steps' = steps + 1
    /\ last' = Call("sessions_sheet",
                    [daily |-> daily_totals(sessions),
                     rows |-> sessions_sheet(sessions)])
    /\ UNCHANGED <<sessions, objs, sessions_file, recent, active_project,
                   active_task, auto_split_minutes, work_hours,
                   projects_embedded, config_file, config, current_project,
                   current_task, is_running, refresh_pending, window, export,
                   now, ticks, uuids>>
    /\ UNCHANGED workbook
    /\ UNCHANGED projects_file
    /\ UNCHANGED session_manager

\* the store's calls and the listing
ListingNext ==
    \/ Tick
    \/ CreateSessionCall
    \/ StopActiveSessionCall
    \/ AddSessionCall
    \/ ListSessionsCall

ListingSpec == Init /\ [][ListingNext]_vars

\* a _file_writeable that does not try the file
file_writeable_Always(wb) == TRUE

\* ExcelReportManager._file_writeable: a file that is not there can be
\* written, one that is there must open for appending
file_writeable(wb) == ~wb.exists \/ ~wb.locked

\* ExcelReportManager.export_all: what it returns and the file afterwards.
\* writes tells whether the writer gets through; an exception in it is caught
\* and reported as False, and the file is taken to be as before.
export_all(ss, wh, wb, writes) ==
    IF ~file_writeable(wb) THEN [ok |-> FALSE, workbook |-> wb]
    ELSE IF ~writes THEN [ok |-> FALSE, workbook |-> wb]
    ELSE [ok |-> TRUE,
          workbook |-> [exists |-> TRUE, locked |-> wb.locked,
                        sheets |-> [sessions |-> sessions_sheet(ss),
                                    evaluation |-> evaluation_sheet(ss, wh)]]]

\* what the spreadsheet actions leave alone
WorkbookFrame ==
    UNCHANGED <<sessions, objs, sessions_file, recent, active_project,
                active_task, auto_split_minutes, work_hours,
                projects_embedded, config_file, config, current_project,
                current_task, is_running, refresh_pending, window, now, ticks,
                uuids,
                projects_file,
                session_manager>>

\* another program opens the spreadsheet and holds it
WorkbookLocked ==
    /\ ~workbook.locked
    /\ workbook' = [workbook EXCEPT !.exists = TRUE, !.locked = TRUE]
    /\ UNCHANGED <<steps, last, export>>
    /\ WorkbookFrame

\* the other program closes the spreadsheet
WorkbookReleased ==
    /\ workbook.locked
    /\ workbook' = [workbook EXCEPT !.locked = FALSE]
    /\ UNCHANGED <<steps, last, export>>
    /\ WorkbookFrame

\* export_all(json_db)
ExportAllCall ==
    /\ steps < MaxSteps
    /\ steps' = steps + 1
    /\ \E writes \in BOOLEAN :
          LET e == export_all(sessions, work_hours, workbook, writes)
          IN  /\ workbook' = e.workbook
              /\ export' = IF e.ok THEN "ok" ELSE "failed"
              /\ last' = Call("export_all", [kind |-> IF e.ok THEN "ok" ELSE "failed", n |-> 0])
    /\ WorkbookFrame

\* the store's calls, the export and the other program
ExportNext ==
    \/ Tick
    \/ CreateSessionCall
    \/ StopActiveSessionCall
    \/ ExportAllCall
    \/ WorkbookLocked
    \/ WorkbookReleased

ExportSpec == Init /\ [][ExportNext]_vars

\* get_today_sessions(session_type), with and without a type
GetTodaySessionsCall ==
    /\ Query
    /\ \E ty \in {"any"} \cup SessionTypes :
          last' = Call("get_today_sessions",
                       [type |-> ty,
                        result |-> get_today_sessions(sessions, ty, now)])
    /\ UNCHANGED <<projects_embedded, config_file, config>>

QueryNext ==
    \/ EvaluationSheetCall
    \/ UpdateDisplayCall
    \/ GetTodaySessionsCall
    \/ SessionsSheetCall

QuerySpec == QueryInit /\ [][QueryNext]_vars

\* ------------------------------------------------------------ the overlay
\* 'break' if project == 'BREAK' else 'work'
TypeForProject(project) == IF project = "BREAK" THEN "break" ELSE "work"

Handler ==
    /\ window = "open"
    /\ steps < MaxSteps
    /\ steps' = steps + 1

\* BeautifulCleanOverlay.start_session
start_session ==
    LET stopped == stop_active_session(sessions, objs, now)
        session_type == TypeForProject(current_project)
    IN  /\ Len(sessions) < MaxSessions
        /\ sessions' = create_session(stopped, NextUuid, current_project,
                                      current_task, session_type, now)
        /\ objs' = Append(objs, NewObj(objs))
        /\ uuids' = uuids + 1
        /\ recent' = update_recent_combination(recent, current_project,
                                               current_task)
        /\ is_running' = TRUE
        /\ sessions_file' = save_sessions(sessions', sessions_file, TRUE)
        /\ last' = Call("start_session",
                        NextUuid)

\* BeautifulCleanOverlay.pause_session
pause_session ==
    LET a == get_active_session(sessions)
    IN  /\ sessions' = stop_active_session(sessions, objs, now)
        /\ IF a # 0
           THEN /\ is_running' = FALSE
                /\ sessions_file' = save_sessions(sessions', sessions_file, TRUE)
           ELSE UNCHANGED <<is_running, sessions_file>>
        /\ last' = Call("pause_session",
                        IF a = 0 THEN NoId ELSE sessions[a].id)
        /\ UNCHANGED <<objs, uuids, recent>>

\* BeautifulCleanOverlay.toggle_play_pause
toggle_play_pause ==
    /\ Handler
    /\ IF get_active_session(sessions) = 0 THEN start_session ELSE pause_session
    /\ UNCHANGED <<active_project, active_task, auto_split_minutes,
                   current_project, current_task, refresh_pending, window,
                   export, now, ticks>>
    /\ UNCHANGED work_hours
    /\ UNCHANGED <<projects_embedded, config_file>>
    /\ UNCHANGED config
    /\ UNCHANGED workbook
    /\ UNCHANGED projects_file
    /\ UNCHANGED session_manager

\* the entries show_project_switch_menu offers: the recent combinations other
\* than the current one, split into project and task
SwitchMenu ==
    {SplitCombination(recent[k]) :
        k \in {j \in 1..Min(Len(recent), RecentLimit) :
                  recent[j] # Combination(current_project, current_task)}}

\* the auto-split test comparing elapsed seconds with the threshold in minutes
should_split_Seconds(ss, t, minutes) ==
    LET a == get_active_session(ss)
    IN  /\ a # 0
        /\ ss[a].is_active
        /\ IntSeconds(t - ss[a].start_time) >= minutes

\* an auto-split test that splits on every quick switch
should_split_Always(ss, t, minutes) == TRUE

\* the auto-split test of quick_switch_project
should_split(ss, t, minutes) ==
    LET a == get_active_session(ss)
    IN  /\ a # 0
        /\ ss[a].is_active
        /\ IntSeconds(t - ss[a].start_time) >= minutes * SecondsPerMinute

\* BeautifulCleanOverlay.quick_switch_project(project, task)
quick_switch_project ==
    /\ Handler
    /\ \E c \in SwitchMenu :
        LET project == c[1]
            task == c[2]
            a == get_active_session(sessions)
        IN  /\ IF should_split(sessions, now, auto_split_minutes)
               THEN /\ Len(sessions) < MaxSessions
                    /\ sessions' = create_session(
                                      stop_active_session(sessions, objs, now),
                                      NextUuid, project, task,
                                      TypeForProject(project), now)
                    /\ objs' = Append(objs, NewObj(objs))
                    /\ uuids' = uuids + 1
                    /\ is_running' = TRUE
               ELSE /\ sessions' = IF a # 0
                                   THEN SetObj(sessions, objs, a,
                                               [sessions[a] EXCEPT
                                                   !.project = project,
                                                   !.task = task])
                                   ELSE sessions
                    /\ UNCHANGED <<objs, uuids, is_running>>
            /\ current_project' = project
            /\ current_task' = task
            /\ active_project' = project
            /\ active_task' = task
            \* create_session records the combination, and so does
            \* set_active_project_task
            /\ recent' = update_recent_combination(
                            IF should_split(sessions, now, auto_split_minutes)
                            THEN update_recent_combination(recent, project, task)
                            ELSE recent,
                            project, task)
            /\ sessions_file' = save_sessions(sessions', sessions_file, TRUE)
            /\ last' = Call("quick_switch_project",
                            [kind |-> IF should_split(sessions, now,
                                                      auto_split_minutes)
                                      THEN "split"
                                      ELSE IF a # 0 THEN "updated" ELSE "idle",
                             n |-> a])
    /\ UNCHANGED <<auto_split_minutes, refresh_pending, window, export, now,
                   ticks>>
    /\ UNCHANGED work_hours
    /\ projects_embedded' = TRUE
    /\ config_file' = save_config(auto_split_minutes, work_hours, TRUE, recent',
                                  active_project', active_task')
    /\ UNCHANGED config
    /\ UNCHANGED workbook
    /\ UNCHANGED projects_file
    /\ UNCHANGED session_manager

\* show_project_task_editor.save_changes with a project and a task typed in
save_changes ==
    /\ Handler
    /\ \E c \in InputCombos :
        LET a == get_active_session(sessions)
        IN  \E new_notes \in (IF a = 0 THEN {""} ELSE {sessions[a].note}) :
            /\ current_project' = c[1]
            /\ current_task' = c[2]
            /\ active_project' = c[1]
            /\ active_task' = c[2]
            /\ recent' = update_recent_combination(recent, c[1], c[2])
            /\ sessions' = IF a # 0
                           THEN SetObj(sessions, objs, a,
                                       [sessions[a] EXCEPT
                                           !.note = new_notes,
                                           !.project = c[1],
                                           !.task = c[2]])
                           ELSE sessions
            /\ last' = Call("save_changes", NoId)
    /\ UNCHANGED <<objs, sessions_file, auto_split_minutes, is_running,
                   refresh_pending, window, export, now, ticks, uuids>>
    /\ UNCHANGED work_hours
    /\ projects_embedded' = TRUE
    /\ config_file' = save_config(auto_split_minutes, work_hours, TRUE, recent',
                                  active_project', active_task')
    /\ UNCHANGED config
    /\ UNCHANGED workbook
    /\ UNCHANGED projects_file
    /\ UNCHANGED session_manager

\* BeautifulCleanOverlay.apply_settings with the project and task fields left
\* as the dialog filled them and a threshold picked in the spinbox
apply_settings ==
    /\ Handler
    /\ \E project \in {current_project}, task \in {current_task},
          minutes \in AutoSplitChoices :
          /\ current_project' = project
          /\ current_task' = task
          /\ auto_split_minutes' = minutes
          /\ auto_split_minutes' # auto_split_minutes
    /\ last' = Call("apply_settings", NoId)
    /\ UNCHANGED <<sessions, objs, sessions_file, recent, active_project,
                   active_task, is_running, refresh_pending, window, export,
                   now, ticks, uuids>>
    /\ UNCHANGED work_hours
    /\ config_file' = save_config(auto_split_minutes', work_hours,
                                  projects_embedded, recent, active_project,
                                  active_task)
    /\ UNCHANGED projects_embedded
    /\ UNCHANGED config
    /\ UNCHANGED workbook
    /\ UNCHANGED projects_file
    /\ UNCHANGED session_manager

\* save_session_changes_extended applied to the session record s: the record
\* afterwards, and whether the handler got as far as save_sessions
ExtendedEdit(s, project, task, date_str, start_time_str, end_time_str, duration_minutes, note) ==
    LET s1 == [s EXCEPT !.project = project, !.task = task, !.note = note]
    IN  IF date_str # EmptyText /\ start_time_str # EmptyText
        THEN IF date_str = BadText \/ start_time_str = BadText
             THEN [session |-> s1, saved |-> FALSE]
             ELSE LET start_datetime ==
                          DateTimeOfSeconds(date_str, start_time_str)
                      s2 == [s1 EXCEPT !.start_time = start_datetime]
                  IN  IF end_time_str # EmptyText
                      THEN IF end_time_str = BadText
                           THEN [session |-> s2, saved |-> FALSE]
                           ELSE LET parsed == DateTimeOfSeconds(date_str,
                                                                end_time_str)
                                    end_datetime ==
                                        IF parsed <= start_datetime
                                        THEN parsed + DayMs ELSE parsed
                                IN  [session |->
                                        [s2 EXCEPT
                                          !.end_time = end_datetime,
                                          !.duration_seconds =
                                            IntSeconds(end_datetime
                                                       - start_datetime)],
                                     saved |-> TRUE]
                      ELSE [session |->
                              [s2 EXCEPT
                                !.duration_seconds =
                                    duration_minutes * SecondsPerMinute,
                                !.end_time =
                                    start_datetime
                                    + duration_minutes * SecondsPerMinute
                                      * MsPerSecond],
                            saved |-> TRUE]
        ELSE [session |->
                [s1 EXCEPT !.duration_seconds =
                               duration_minutes * SecondsPerMinute],
              saved |-> TRUE]

\* what edit_session puts into the fields of its dialog
PrefillDate(s) == DateOf(s.start_time)
PrefillStart(s) == FormatHMS(s.start_time)
PrefillEnd(s) == IF s.end_time # NoneTime THEN FormatHMS(s.end_time)
                 ELSE EmptyText
PrefillMinutes(s) == s.duration_seconds \div SecondsPerMinute

\* the (date, end time, duration minutes, note) fields as the user leaves
\* them: all as filled in, the end time cleared and a duration typed, the
\* date cleared and a duration typed, or a note typed and an end time that
\* does not parse
ExtendedInputs(s) ==
    {<<PrefillDate(s), PrefillEnd(s), PrefillMinutes(s), s.note>>,
     <<PrefillDate(s), BadText, PrefillMinutes(s), "edited">>}
    \cup {<<PrefillDate(s), EmptyText, m, s.note>> : m \in EditDurationMinutes}
    \cup {<<EmptyText, PrefillEnd(s), m, s.note>> : m \in EditDurationMinutes}

\* BeautifulCleanOverlay.save_session_changes_extended on the session at
\* list position i
save_session_changes_extended ==
    /\ Handler
    /\ \E i \in DOMAIN sessions :
        LET s == sessions[i]
        IN  \E in \in ExtendedInputs(s) :
            LET r == ExtendedEdit(s, s.project, s.task, in[1],
                                  PrefillStart(s), in[2], in[3], in[4])
            IN  /\ sessions' = SetObj(sessions, objs, i, r.session)
                /\ sessions_file' = IF r.saved
                                    THEN save_sessions(sessions', sessions_file,
                                                       TRUE)
                                    ELSE sessions_file
                /\ last' = Call("save_session_changes_extended",
                                [kind |-> IF r.saved THEN "index" ELSE "error",
                                 n |-> i])
    /\ UNCHANGED <<objs, recent, active_project, active_task,
                   auto_split_minutes, current_project, current_task,
                   is_running, refresh_pending, window, export, now, ticks,
                   uuids>>
    /\ UNCHANGED work_hours
    /\ UNCHANGED <<projects_embedded, config_file>>
    /\ UNCHANGED config
    /\ UNCHANGED workbook
    /\ UNCHANGED projects_file
    /\ UNCHANGED session_manager

\* -------------------------------------------------------- session editor
\* JsonDatabase.update_session(session) where session is the object at list
\* position i: the first entry with that id becomes this object
update_session(ss, i) ==
    LET k == FindById(ss, ss[i].id)
    IN  IF k # 0 THEN [ss EXCEPT ![k] = ss[i]] ELSE ss

update_session_objs(ss, ob, i) ==
    LET k == FindById(ss, ss[i].id)
    IN  IF k # 0 THEN [ob EXCEPT ![k] = ob[i]] ELSE ob

\* an edit that builds a new session with an id of its own
EditedSession_NewId(s, project, task, start_time, end_time, note, t) ==
    AddedSession(TimestampId(t), start_time, end_time, project, task,
                 s.session_type, note)

\* the session record save_session leaves in an edited session
EditedSession(s, project, task, start_time, end_time, note, t) ==
    IF end_time # NoneTime
    THEN [s EXCEPT !.project = project, !.task = task,
                   !.start_time = start_time, !.end_time = end_time,
                   !.duration_seconds = IntSeconds(end_time - start_time),
                   !.is_active = FALSE, !.note = note]
    ELSE [s EXCEPT !.project = project, !.task = task,
                   !.start_time = start_time, !.end_time = NoneTime,
                   !.is_active = TRUE,
                   !.duration_seconds = IntSeconds(Max(0, t - start_time)),
                   !.note = note]

\* is_active_session of show_session_dialog
IsActiveSession(s) == s.is_active \/ s.end_time = NoneTime

\* the checks of save_session that end the handler without a change
Rejected(has_session, is_active_session, date_str, start_str, end_str) ==
    \/ date_str \in {BadText, EmptyText}
    \/ start_str \in {BadText, EmptyText}
    \/ end_str = BadText
    \/ /\ end_str # EmptyText
       /\ DateTimeOfMinutes(date_str, end_str)
            <= DateTimeOfMinutes(date_str, start_str)
    \/ end_str = EmptyText /\ has_session /\ ~is_active_session

\* SessionEditor.show_session_dialog.save_session for the session at list
\* position i
save_session_edit ==
    /\ Handler
    /\ \E i \in DOMAIN sessions :
        LET s == sessions[i]
        IN  \E end_str \in {IF IsActiveSession(s) THEN EmptyText
                            ELSE FormatHM(s.end_time),
                            EmptyText, BadText, FormatHM(s.start_time) + 5} :
            LET date_str == DateOf(s.start_time)
                start_str == FormatHM(s.start_time)
                start_time == DateTimeOfMinutes(date_str, start_str)
                end_time == IF end_str = EmptyText THEN NoneTime
                            ELSE DateTimeOfMinutes(date_str, end_str)
            IN  IF Rejected(TRUE, IsActiveSession(s), date_str, start_str,
                            end_str)
                THEN /\ UNCHANGED <<sessions, objs>>
                     /\ last' = Call("save_session",
                                     [kind |-> "error", n |-> 0])
                ELSE LET edited == SetObj(sessions, objs, i,
                                      EditedSession(s, s.project, s.task,
                                                    start_time, end_time,
                                                    s.note, now))
                     IN  /\ sessions' = update_session(edited, i)
                         /\ objs' = update_session_objs(edited, objs, i)
                         /\ last' = Call("save_session",
                                         [kind |-> "index", n |-> i])
    /\ UNCHANGED <<sessions_file, recent, active_project, active_task,
                   auto_split_minutes, current_project, current_task,
                   is_running, refresh_pending, window, export, now, ticks,
                   uuids>>
    /\ UNCHANGED work_hours
    /\ UNCHANGED <<projects_embedded, config_file>>
    /\ UNCHANGED config
    /\ UNCHANGED workbook
    /\ UNCHANGED projects_file
    /\ UNCHANGED session_manager

\* SessionEditor.show_session_dialog.save_session for a new session, the
\* dialog opened by add_session ("work") or add_break ("break")
save_session_add ==
    /\ Handler
    /\ \E in \in AddInputs,
          date_str \in {DateOf(now), BadText},
          end_str \in {FormatHM(now + 60 * SecondsPerMinute * MsPerSecond),
                       EmptyText} :
        LET session_type == in[1]
            c == <<in[2], in[3]>>
            start_str == FormatHM(now)
            start_time == DateTimeOfMinutes(date_str, start_str)
            end_time == IF end_str = EmptyText THEN NoneTime
                        ELSE DateTimeOfMinutes(date_str, end_str)
        IN  IF Rejected(FALSE, FALSE, date_str, start_str, end_str)
            THEN /\ UNCHANGED <<sessions, objs, recent, uuids>>
                 /\ last' = Call("save_session",
                                 [kind |-> "error", n |-> 0])
            ELSE /\ Len(sessions) < MaxSessions
                 /\ objs' = Append(objs, NewObj(objs))
                 /\ IF end_time # NoneTime
                    THEN /\ sessions' = add_session(sessions, TimestampId(now),
                                            start_time, end_time, c[1], c[2],
                                            session_type, "")
                         /\ last' = Call("save_session",
                                         TimestampId(now))
                         /\ UNCHANGED <<recent, uuids>>
                    ELSE LET created == create_session(sessions, NextUuid,
                                            c[1], c[2], session_type, now)
                             n == Len(created)
                             moved == [created EXCEPT
                                          ![n].start_time = start_time,
                                          ![n].note = ""]
                         IN  /\ sessions' = update_session(moved, n)
                             /\ recent' = update_recent_combination(recent,
                                                                    c[1], c[2])
                             /\ uuids' = uuids + 1
                             /\ last' = Call("save_session",
                                             NextUuid)
    /\ UNCHANGED <<sessions_file, active_project, active_task,
                   auto_split_minutes, current_project, current_task,
                   is_running, refresh_pending, window, export, now, ticks>>
    /\ UNCHANGED work_hours
    /\ UNCHANGED <<projects_embedded, config_file>>
    /\ UNCHANGED config
    /\ UNCHANGED workbook
    /\ UNCHANGED projects_file
    /\ UNCHANGED session_manager

\* ------------------------------------------------- refresh and shutdown
\* one round of BeautifulCleanOverlay.update_loop on the background thread:
\* root.after_idle(self.update_display)
update_loop ==
    /\ window = "open"
    /\ ~refresh_pending
    /\ refresh_pending' = TRUE
    /\ UNCHANGED <<last, sessions, objs, sessions_file, recent, active_project,
                   active_task, auto_split_minutes, current_project,
                   current_task, is_running, window, export, now, ticks,
                   uuids, steps>>
    /\ UNCHANGED work_hours
    /\ UNCHANGED <<projects_embedded, config_file>>
    /\ UNCHANGED config
    /\ UNCHANGED workbook
    /\ UNCHANGED projects_file
    /\ UNCHANGED session_manager

\* an update_display that stores the elapsed time in the active session
update_display_StoresElapsed ==
    /\ window = "open"
    /\ refresh_pending
    /\ refresh_pending' = FALSE
    /\ is_running' = RunningShown(sessions)
    /\ sessions' =
          LET a == get_active_session(sessions)
          IN  IF a # 0
              THEN SetObj(sessions, objs, a,
                          [sessions[a] EXCEPT !.duration_seconds =
                              IntSeconds(now - sessions[a].start_time)])
              ELSE sessions
    /\ objs' = objs
    /\ UNCHANGED <<last, sessions_file, recent, active_project, active_task,
                   auto_split_minutes, current_project, current_task, window,
                   export, now, ticks, uuids, steps>>
    /\ UNCHANGED work_hours
    /\ UNCHANGED <<projects_embedded, config_file>>
    /\ UNCHANGED config
    /\ UNCHANGED workbook
    /\ UNCHANGED projects_file
    /\ UNCHANGED session_manager

\* BeautifulCleanOverlay.update_display, run by the UI thread when idle
update_display ==
    /\ window = "open"
    /\ refresh_pending
    /\ refresh_pending' = FALSE
    /\ is_running' = RunningShown(sessions)
    /\ sessions' = sessions
    /\ objs' = objs
    /\ UNCHANGED <<last, sessions_file, recent, active_project, active_task,
                   auto_split_minutes, current_project, current_task, window,
                   export, now, ticks, uuids, steps>>
    /\ UNCHANGED work_hours
    /\ UNCHANGED <<projects_embedded, config_file>>
    /\ UNCHANGED config
    /\ UNCHANGED workbook
    /\ UNCHANGED projects_file
    /\ UNCHANGED session_manager

\* BeautifulCleanOverlay.on_closing; export_all reports success or failure
on_closing ==
    /\ Handler
    /\ LET a == get_active_session(sessions)
       IN  /\ sessions' = stop_active_session(sessions, objs, now)
           /\ sessions_file' = IF a # 0
                               THEN save_sessions(sessions', sessions_file, TRUE)
                               ELSE sessions_file
           /\ last' = Call("on_closing",
                           IF a = 0 THEN NoId ELSE sessions[a].id)
    /\ \E writes \in BOOLEAN :
          LET e == export_all(sessions', work_hours, workbook, writes)
          IN  /\ workbook' = e.workbook
              /\ export' = IF e.ok THEN "ok" ELSE "failed"
    /\ window' = "closed"
    /\ UNCHANGED <<objs, recent, active_project, active_task,
                   auto_split_minutes, current_project, current_task,
                   is_running, refresh_pending, now, ticks, uuids>>
    /\ UNCHANGED work_hours
    /\ config_file' = save_config(auto_split_minutes, work_hours,
                                  projects_embedded, recent, active_project,
                                  active_task)
    /\ UNCHANGED projects_embedded
    /\ UNCHANGED config
    /\ UNCHANGED projects_file
    /\ UNCHANGED session_manager

Next ==
    \/ Tick
    \/ toggle_play_pause
    \/ quick_switch_project
    \/ save_changes
    \/ apply_settings
    \/ save_session_changes_extended
    \/ save_session_edit
    \/ save_session_add
    \/ update_loop
    \/ update_display
    \/ on_closing

Spec == Init /\ [][Next]_vars

\* --------------------------------------------------------------- deleting
\* JsonDatabase.remove_session: pops the first session with that id
remove_session(ss, id) ==
    LET k == FindById(ss, id)
    IN  IF k # 0 THEN RemoveAt(ss, k) ELSE ss

\* a cleanup that keeps only the sessions started after the cutoff
cleanup_old_data_Strict(ss, cutoff) ==
    LET Later(s) == s.start_time > cutoff
    IN  SelectSeq(ss, Later)

\* JsonDatabase.cleanup_old_data: keeps the sessions started at the cutoff or
\* later, in their order
RECURSIVE cleanup_old_data(_, _)
cleanup_old_data(ss, cutoff) ==
    IF ss = << >> THEN << >>
    ELSE IF Head(ss).start_time >= cutoff
         THEN <<Head(ss)>> \o cleanup_old_data(Tail(ss), cutoff)
         ELSE cleanup_old_data(Tail(ss), cutoff)

\* the objects behind the sessions cleanup_old_data keeps
RECURSIVE cleanup_old_objs(_, _, _)
cleanup_old_objs(ss, ob, cutoff) ==
    IF ss = << >> THEN << >>
    ELSE IF Head(ss).start_time >= cutoff
         THEN <<Head(ob)>> \o cleanup_old_objs(Tail(ss), Tail(ob), cutoff)
         ELSE cleanup_old_objs(Tail(ss), Tail(ob), cutoff)

\* the days_to_keep the model calls cleanup_old_data with
DaysToKeep == {0, 1}

\* what a deletion leaves alone
DeleteFrame ==
    UNCHANGED <<recent, active_project, active_task, auto_split_minutes,
                work_hours, projects_embedded, config_file, config,
                current_project, current_task, is_running, refresh_pending,
                window, export, now, ticks, uuids,
                workbook,
                projects_file,
                session_manager>>

\* an id no session of the store has
UnknownId == [kind |-> "uuid", n |-> 0]

\* JsonDatabase.update_session(session) with a session object of the caller:
\* the list afterwards
UpdatedList(ss, session) ==
    LET k == FindById(ss, session.id)
    IN  IF k # 0 THEN [ss EXCEPT ![k] = session] ELSE ss

\* update_session(session): the caller hands in a closed session that carries
\* the id of a stored one, or an id the store does not have
UpdateSessionCall ==
    /\ steps < MaxSteps
    /\ steps' = steps + 1
    /\ \E id \in {sessions[i].id : i \in DOMAIN sessions} \cup {UnknownId} :
          LET session == TimeSession(id, now, now + SecondsPerMinute * MsPerSecond, "General", "Updated", SecondsPerMinute, FALSE, "work", "")
              k == FindById(sessions, id)
          IN  /\ sessions' = UpdatedList(sessions, session)
              /\ objs' = IF k # 0 THEN [objs EXCEPT ![k] = NewObj(objs)] ELSE objs
              /\ last' = Call("update_session",
                              [id |-> id, ok |-> k # 0, session |-> session])
    /\ UNCHANGED sessions_file
    /\ DeleteFrame

\* remove_session(session_id)
RemoveSessionCall ==
    /\ steps < MaxSteps
    /\ steps' = steps + 1
    /\ \E id \in {sessions[i].id : i \in DOMAIN sessions} \cup {UnknownId} :
          /\ sessions' = remove_session(sessions, id)
          /\ objs' = RemoveAt(objs, FindById(sessions, id))
          /\ last' = Call("remove_session",
                          [id |-> id, ok |-> FindById(sessions, id) # 0])
    /\ UNCHANGED sessions_file
    /\ DeleteFrame

\* cleanup_old_data(days_to_keep)
CleanupOldDataCall ==
    /\ steps < MaxSteps
    /\ steps' = steps + 1
    /\ \E days \in DaysToKeep :
          /\ sessions' = cleanup_old_data(sessions, now - days * DayMs)
          /\ objs' = cleanup_old_objs(sessions, objs, now - days * DayMs)
          /\ last' = Call("cleanup_old_data",
                          [days |-> days,
                           removed |-> Len(sessions) - Len(sessions') > 0])
    /\ UNCHANGED sessions_file
    /\ DeleteFrame

\* the store's calls that go by the id
ByIdNext ==
    \/ Tick
    \/ CreateSessionCall
    \/ AddSessionCall
    \/ UpdateSessionCall
    \/ RemoveSessionCall

ByIdSpec == Init /\ [][ByIdNext]_vars

\* the store's calls and the cleanup
CleanupNext ==
    \/ Tick
    \/ CreateSessionCall
    \/ StopActiveSessionCall
    \/ AddSessionCall
    \/ CleanupOldDataCall

CleanupSpec == Init /\ [][CleanupNext]_vars

\* BeautifulCleanOverlay.delete_session, confirmed: list.remove takes out the
\* first session equal to the one of the row, then the list is saved
delete_session ==
    /\ Handler
    /\ \E i \in DOMAIN sessions :
          LET k == IndexOf(sessions, sessions[i], 1)
          IN  /\ sessions' = RemoveAt(sessions, k)
              /\ objs' = RemoveAt(objs, k)
              /\ last' = Call("delete_session", sessions[i].id)
    /\ sessions_file' = save_sessions(sessions', sessions_file, TRUE)
    /\ DeleteFrame

\* the cells delete_selected compares: date, weekday, HH:MM and project
RowKey(s) == <<DateOf(s.start_time), FormatHM(s.start_time), s.project>>

\* SessionEditor.delete_selected, confirmed: the first session showing the
\* cells of the selected row is removed by its id; nothing is saved
delete_selected ==
    /\ Handler
    /\ \E i \in DOMAIN sessions :
          LET j == CHOOSE j \in DOMAIN sessions :
                      /\ RowKey(sessions[j]) = RowKey(sessions[i])
                      /\ \A h \in 1 .. (j - 1) :
                            RowKey(sessions[h]) # RowKey(sessions[i])
              id == sessions[j].id
          IN  /\ sessions' = remove_session(sessions, id)
              /\ objs' = RemoveAt(objs, FindById(sessions, id))
              /\ last' = Call("delete_selected", id)
    /\ UNCHANGED sessions_file
    /\ DeleteFrame

\* creating, stopping, quick switch, editing and closing, by the store, the
\* overlay and the session editor, with the deletions
KeepNext ==
    \/ Tick
    \/ toggle_play_pause
    \/ quick_switch_project
    \/ save_session_changes_extended
    \/ save_session_edit
    \/ on_closing
    \/ CreateSessionCall
    \/ StopActiveSessionCall
    \/ AddSessionCall
    \/ RemoveSessionCall
    \/ CleanupOldDataCall
    \/ delete_session
    \/ delete_selected

KeepSpec == Init /\ [][KeepNext]_vars

\* ---------------------------------- calls on the legacy SessionManager
LegacyFrame ==
    UNCHANGED <<sessions, objs, sessions_file, recent, active_project,
                active_task, auto_split_minutes, work_hours,
                projects_embedded, config_file, config, current_project,
                current_task, is_running, refresh_pending, window, export,
                now, ticks, uuids, workbook, projects_file>>

\* a call on the SessionManager that leaves it as new_manager
LegacyCall(op, new_manager) ==
    /\ steps' = steps + 1
    /\ session_manager' = new_manager
    /\ last' = Call(op, NoId)
    /\ LegacyFrame

\* the projects passed to start_session and switch_project
LegacyProjects == {"General", "BREAK", ""}

\* the times the caller of update_session passes: a start, and an end five
\* minutes later or None
LegacyStarts == {0}
LegacyEnds == {NoneTime, 5 * SecondsPerMinute * MsPerSecond}

\* the lists the session table hands to update_sessions
LegacyLists ==
    {<< >>,
     <<WorkSession(0, 5 * SecondsPerMinute * MsPerSecond,
                   5 * SecondsPerMinute * MsPerSecond, "", "General")>>}

\* start_session(project); with a session running it raises ValueError
LegacyStartSessionCall ==
    /\ steps < MaxSteps
    /\ ~session_manager.is_working
    /\ \E project \in LegacyProjects :
          LegacyCall("SessionManager.start_session",
                     legacy_start_session(session_manager, project, now))

\* stop_session()
LegacyStopSessionCall ==
    /\ steps < MaxSteps
    /\ LegacyCall("SessionManager.stop_session",
                  legacy_stop_session(session_manager, now))

\* switch_project(new_project)
LegacySwitchProjectCall ==
    /\ steps < MaxSteps
    /\ \E new_project \in LegacyProjects :
          LegacyCall("SessionManager.switch_project",
                     legacy_switch_project(session_manager, new_project, now))

\* finish_current_session()
LegacyFinishCurrentSessionCall ==
    /\ steps < MaxSteps
    /\ LegacyCall("SessionManager.finish_current_session",
                  legacy_finish_current_session(session_manager, now))

\* update_session(session_index, start, end, project, note)
LegacyUpdateSessionCall ==
    /\ steps < MaxSteps
    /\ \E session_index \in 0..Len(session_manager.sessions),
          start \in LegacyStarts, end \in LegacyEnds,
          project \in {"General", "BREAK"} :
          LegacyCall("SessionManager.update_session",
                     legacy_update_session(session_manager, session_index,
                                           start, end, project, "edited"))

\* update_sessions(sessions)
LegacyUpdateSessionsCall ==
    /\ steps < MaxSteps
    /\ \E ss \in LegacyLists :
          LegacyCall("SessionManager.update_sessions",
                     legacy_update_sessions(session_manager, ss))

\* delete_session(index)
LegacyDeleteSessionCall ==
    /\ steps < MaxSteps
    /\ \E index \in 0..Len(session_manager.sessions) :
          LegacyCall("SessionManager.delete_session",
                     legacy_delete_session(session_manager, index))

LegacyNext ==
    \/ Tick
    \/ LegacyStartSessionCall
    \/ LegacyStopSessionCall
    \/ LegacySwitchProjectCall
    \/ LegacyFinishCurrentSessionCall
    \/ LegacyUpdateSessionCall
    \/ LegacyUpdateSessionsCall
    \/ LegacyDeleteSessionCall

LegacySpec == Init /\ [][LegacyNext]_vars

\* ---------------------------------------------------------------- claims
\* the objects of the list that are active sessions
ActiveObjects(ss, ob) == {ob[i] : i \in {j \in DOMAIN ss : ss[j].is_active}}

\* a handler or store call named op has just run
Ran(op) == steps' = steps + 1 /\ last'.op = op

\* C1: after every UI-mediated transition at most one session of the store
\* has is_active = true.
C1_AtMostOneActive == Cardinality(ActiveObjects(sessions, objs)) <= 1

\* C2: in every reachable state a session's end_time is null if and only if
\* its is_active flag is true.
C2_EndTimeNullIffActive ==
    \A i \in DOMAIN sessions :
        (sessions[i].end_time = NoneTime) <=> sessions[i].is_active

\* C3: every closed session (end_time set) has duration_seconds equal to the
\* whole number of seconds of end_time - start_time.
C3_ClosedDurationDerived ==
    \A i \in DOMAIN sessions :
        sessions[i].end_time # NoneTime
            => sessions[i].duration_seconds
                 = IntSeconds(sessions[i].end_time - sessions[i].start_time)

\* C4: create_session never rejects a call: it appends exactly one session
\* that is active, has no end_time, duration 0 and an id no existing session
\* has, leaves the existing sessions as they are, and does not close a session
\* that is already active, so that a second call without a stop in between
\* leaves two sessions active.
C4_CreateSessionAppends ==
    /\ []((steps < MaxSteps /\ Len(sessions) < MaxSessions)
            => ENABLED CreateSessionCall)
    /\ [][Ran("create_session") =>
          LET n == Len(sessions') IN
          /\ n = Len(sessions) + 1
          /\ SubSeq(sessions', 1, Len(sessions)) = sessions
          /\ sessions'[n].is_active
          /\ sessions'[n].end_time = NoneTime
          /\ sessions'[n].duration_seconds = 0
          /\ sessions'[n].start_time = now
          /\ sessions'[n].id = last'.ret
          /\ \A i \in DOMAIN sessions : sessions[i].id # sessions'[n].id
          /\ (\E i \in DOMAIN sessions : sessions[i].is_active)
                   => Cardinality({i \in DOMAIN sessions' :
                                       sessions'[i].is_active}) >= 2]_vars

C4_Witness ==
    /\ last.op = "create_session"
    /\ Len(sessions) >= 2
    /\ sessions[Len(sessions)].is_active
    /\ sessions[Len(sessions) - 1].is_active
    /\ sessions[Len(sessions) - 1].start_time < now

\* C5: stop_active_session returns nothing and changes no session when no
\* session is active; otherwise it sets the active session's end_time to now
\* and its duration_seconds to end_time - start_time, clears is_active, and
\* leaves every other session and the length of the list unchanged.
C5_StopActiveSessionFrame ==
    [][Ran("stop_active_session") =>
          IF \A i \in DOMAIN sessions : ~sessions[i].is_active
          THEN sessions' = sessions /\ last'.ret = NoId
          ELSE \E a \in DOMAIN sessions :
                  /\ sessions[a].is_active
                  /\ Len(sessions') = Len(sessions)
                  /\ sessions'[a] =
                        [sessions[a] EXCEPT
                            !.end_time = now,
                            !.duration_seconds =
                                IntSeconds(now - sessions[a].start_time),
                            !.is_active = FALSE]
                  /\ \A i \in DOMAIN sessions :
                        i # a => sessions'[i] = sessions[i]
                  /\ last'.ret = sessions[a].id]_vars

C5_Witness ==
    /\ last.op = "stop_active_session"
    /\ last.ret # NoId
    /\ \E i \in DOMAIN sessions :
          /\ sessions[i].id = last.ret
          /\ sessions[i].end_time = now
          /\ sessions[i].duration_seconds > 0
          /\ ~sessions[i].is_active
    /\ Len(sessions) >= 2

\* C6: for a set of closed sessions dated today, get_today_work_seconds() +
\* get_today_break_seconds() is the sum of their duration_seconds, each
\* session counted once.
TodayDurations(ss, t) ==
    LET Today(s) == DateOf(s.start_time) = DateOf(t)
        today == SelectSeq(ss, Today)
    IN  SumSeq([i \in DOMAIN today |-> today[i].duration_seconds])

C6_WorkPlusBreakIsTotal ==
    (\A i \in DOMAIN sessions :
        sessions[i].end_time # NoneTime /\ ~sessions[i].is_active)
    => get_today_work_seconds(sessions, now)
         + get_today_break_seconds(sessions, now)
       = TodayDurations(sessions, now)

\* C7: a quick project switch made while the active session has run for less
\* than the auto-split threshold creates and closes nothing: the list keeps
\* its length, the same session is still active, and only its project and
\* task change, to the new values.
C7_QuickSwitchBelowThreshold ==
    [][Ran("quick_switch_project") =>
          \A a \in DOMAIN sessions :
              ( /\ sessions[a].is_active
                /\ \A j \in 1..(a - 1) : ~sessions[j].is_active
                /\ now - sessions[a].start_time
                     < auto_split_minutes * SecondsPerMinute * MsPerSecond )
              => /\ Len(sessions') = Len(sessions)
                 /\ sessions'[a] = [sessions[a] EXCEPT
                                       !.project = current_project',
                                       !.task = current_task']
                 /\ \A i \in DOMAIN sessions :
                       objs[i] # objs[a] => sessions'[i] = sessions[i]]_vars

C7_Witness ==
    /\ last.op = "quick_switch_project"
    /\ last.ret.kind = "updated"
    /\ \E a \in DOMAIN sessions :
          /\ a = last.ret.n
          /\ sessions[a].is_active
          /\ sessions[a].start_time < now
          /\ sessions[a].project = current_project
          /\ sessions[a].task = current_task

\* C8: a quick project switch made while the active session has run for at
\* least the auto-split threshold closes that session with its old project
\* and task and its elapsed duration and opens one new active session for the
\* new project and task: the list grows by one and exactly one session is
\* active afterwards.
C8_QuickSwitchAutoSplit ==
    [][Ran("quick_switch_project") =>
          \A a \in DOMAIN sessions :
              ( /\ sessions[a].is_active
                /\ \A j \in 1..(a - 1) : ~sessions[j].is_active
                /\ now - sessions[a].start_time
                     >= auto_split_minutes * SecondsPerMinute * MsPerSecond )
              => LET n == Len(sessions') IN
                 /\ n = Len(sessions) + 1
                 /\ sessions'[a] =
                       [sessions[a] EXCEPT
                           !.end_time = now,
                           !.duration_seconds =
                               IntSeconds(now - sessions[a].start_time),
                           !.is_active = FALSE]
                 /\ sessions'[n].is_active
                 /\ sessions'[n].project = current_project'
                 /\ sessions'[n].task = current_task'
                 /\ Cardinality({i \in DOMAIN sessions' :
                                    sessions'[i].is_active}) = 1]_vars

\* C9: the once-per-second refresh (the update loop queueing update_display,
\* and update_display itself) never changes the session list or a field of a
\* session, wherever it falls between the user's transitions.
C9_RefreshOnlyReads ==
    [][refresh_pending' # refresh_pending =>
          /\ sessions' = sessions
          /\ objs' = objs
          /\ sessions_file' = sessions_file]_vars

C9_Witness ==
    /\ ~refresh_pending
    /\ ~is_running
    /\ last.op = "start_session"
    /\ \E i \in DOMAIN sessions :
          sessions[i].is_active /\ sessions[i].start_time < now

\* C10: window close force-closes and saves any active session before the
\* export is attempted, so that no session is active when the application
\* exits, and the window is shut down whether or not the export succeeds.
C10_NoActiveSessionAtExit ==
    window = "closed" =>
        /\ export \in {"ok", "failed"}
        /\ \A i \in DOMAIN sessions : ~sessions[i].is_active
        /\ last.ret # NoId => sessions_file = SavedSessions(sessions)

\* C11: a session list written with save_sessions / to_dict and read back
\* with load_sessions / from_dict comes back with the same length and order
\* and every field of every record equal, a null end_time included.
C11_RoundTrip ==
    /\ [](load_sessions(save_sessions(sessions, sessions_file, TRUE))
            = sessions)
    /\ [][(Ran("load_sessions") /\ sessions_file = SavedSessions(sessions))
            => sessions' = sessions]_vars

C11_Witness ==
    /\ last.op = "load_sessions"
    /\ sessions_file = SavedSessions(sessions)
    /\ \E i, j \in DOMAIN sessions :
          /\ i < j
          /\ sessions[i].end_time = NoneTime
          /\ sessions[i].start_time % MsPerSecond # 0
          /\ sessions[j].end_time # NoneTime
          /\ sessions[j].note # ""

\* C12 as stated: for every date of the daily evaluation the status is
\* "target reached" if and only if work >= target for the weekday, "no work"
\* if and only if work = 0, and "below target" otherwise.
C12_StatusAsStated ==
    last.op = "evaluation_sheet" =>
        \A d \in DOMAIN last.ret :
            LET row == last.ret[d]
                reached == row.work >= row.target * SecondsPerHour * MsPerSecond
            IN  /\ row.target = Target(work_hours, d)
                /\ (row.status = "target reached") <=> reached
                /\ (row.status = "no work") <=> (row.work = 0)
                /\ (row.status = "below target")
                      <=> (~reached /\ row.work # 0)

\* C12 amended: the status is "no work" if and only if work = 0, "target
\* reached" if and only if work > 0 and work >= target for the weekday, and
\* "below target" otherwise; a day without work and with a target of 0 hours
\* is "no work".
C12_StatusNoWorkFirst ==
    last.op = "evaluation_sheet" =>
        \A d \in DOMAIN last.ret :
            LET row == last.ret[d]
                reached == row.work >= row.target * SecondsPerHour * MsPerSecond
            IN  /\ row.target = Target(work_hours, d)
                /\ (row.status = "no work") <=> (row.work = 0)
                /\ (row.status = "target reached")
                      <=> (row.work > 0 /\ reached)
                /\ (row.status = "below target")
                      <=> (row.work > 0 /\ ~reached)

C12_Witness ==
    /\ last.op = "evaluation_sheet"
    /\ \E d, e \in DOMAIN last.ret :
          /\ last.ret[d].target = 0
          /\ last.ret[d].work = 0
          /\ last.ret[d].status = "no work"
          /\ last.ret[e].target = 1
          /\ last.ret[e].work = SecondsPerHour * MsPerSecond
          /\ last.ret[e].status = "target reached"

\* the list has no entry twice
NoDuplicates(rc) == \A i, j \in DOMAIN rc : rc[i] = rc[j] => i = j

\* the combination the call that has just run was made for
CalledCombination ==
    IF last'.op = "update_recent_combination" THEN last'.ret
    ELSE IF last'.op = "set_active_project_task"
         THEN Combination(active_project', active_task')
         ELSE Combination(sessions'[Len(sessions')].project,
                          sessions'[Len(sessions')].task)

\* C13: after every update_recent_combination call, made directly or through
\* create_session or set_active_project_task, recent_combinations has no
\* entry twice and at most 10 entries, its first entry is the combination of
\* the call, and the entries behind it are the earlier entries other than
\* that combination, in their earlier order, as far as 10 entries reach.
C13_RecentCombinations ==
    /\ [](NoDuplicates(recent) /\ Len(recent) <= RecentLimit)
    /\ [][steps' = steps + 1 =>
            LET c == CalledCombination
                old == IF IndexOf(recent, c, 1) # 0
                       THEN RemoveAt(recent, IndexOf(recent, c, 1))
                       ELSE recent
            IN  /\ recent'[1] = c
                /\ Len(recent') = Min(RecentLimit, Len(old) + 1)
                /\ \A i \in 2..Len(recent') : recent'[i] = old[i - 1]]_vars

C13_Witness ==
    /\ last.op = "update_recent_combination"
    /\ Len(recent) = RecentLimit
    /\ recent[1] = Combination(RecentProjects[RecentLimit + 1], "Review")
    /\ recent[2] = Combination(RecentProjects[5], "Review")
    /\ recent[3] = Combination(RecentProjects[1], "Review")
    /\ \A i \in DOMAIN recent :
          recent[i] # Combination(RecentProjects[RecentLimit], "Review")

\* C14: the remaining time update_display shows for today is the required
\* work seconds of today minus today's work seconds, and 0 where that would
\* be negative, whatever work and break sessions today has.
C14_RemainingTime ==
    last.op = "update_display" =>
        last.ret.remaining
          = Max(0, get_today_required_work_seconds(work_hours, now)
                   - get_today_work_seconds(sessions, now))

\* C15: when the save of an edit dialog (the overlay's or the session
\* editor's) ends on a date or time text that does not parse, no field of any
\* session has changed and the list has no session more.
C15_BadInputNotApplied ==
    [][( /\ (Ran("save_session_changes_extended") \/ Ran("save_session"))
         /\ last'.ret.kind = "error" )
        => sessions' = sessions]_vars

\* C16: when the sessions file or the config file is missing, empty or
\* malformed at load time, the store falls back to the defaults (empty session
\* list, default configuration) and the defaults are written to the file
\* during the load.
C16_DefaultsPersisted ==
    [][Ran("load_all_data") =>
        /\ (~sessions_file.exists \/ sessions_file = MalformedSessionsFile)
              => /\ sessions' = << >>
                 /\ sessions_file' = SavedSessions(<< >>)
        /\ (~config_file.exists \/ ~config_file.valid)
              => /\ auto_split_minutes' = DefaultAutoSplitMinutes
                 /\ work_hours' = << >>
                 /\ config_file' = [exists |-> TRUE, valid |-> TRUE, data |-> DefaultConfig]]_vars

\* C17: ConfigManager.load_config loads or defaults: a file that is missing,
\* empty, not valid JSON or lacks one of the keys work_hours and excel_file
\* makes the configuration in memory the default document, and that document
\* is written to the file; any other file's document is kept unchanged.
C17_LoadOrDefault ==
    [][Ran("ConfigManager.load_config") =>
        IF \/ ~config_file.exists
           \/ ~config_file.valid
           \/ "work_hours" \notin DOMAIN config_file.data
           \/ "excel_file" \notin DOMAIN config_file.data
        THEN /\ config' = DefaultManagerConfig
             /\ config_file'.exists /\ config_file'.valid
             /\ config_file'.data = DefaultManagerConfig
        ELSE /\ config' = config_file.data
             /\ config_file' = config_file]_vars

\* a load has replaced a document lacking a required key by the default, and
\* the default is in the file
C17_Witness ==
    /\ last.op = "ConfigManager.load_config"
    /\ last.ret.kind = "key missing"
    /\ config = DefaultManagerConfig
    /\ config_file.data = DefaultManagerConfig

\* the number of sessions of the list with that id
CountId(ss, id) == Cardinality({i \in DOMAIN ss : ss[i].id = id})

\* the steps that delete: remove_session, the editors' delete actions and
\* cleanup_old_data
Deletes ==
    \/ Ran("remove_session")
    \/ Ran("cleanup_old_data")
    \/ Ran("delete_session")
    \/ Ran("delete_selected")

C19_TodaySessions ==
    [][Ran("get_today_sessions") =>
        LET r == last'.ret.result
            ty == last'.ret.type
            Wanted == {i \in DOMAIN sessions :
                          /\ DateOf(sessions[i].start_time) = DateOf(now)
                          /\ ty # "any" => sessions[i].session_type = ty}
        IN  /\ {r[i] : i \in DOMAIN r} = {sessions[i] : i \in Wanted}
            /\ Len(r) = Cardinality(Wanted)
            /\ \A i, j \in DOMAIN r : i < j => r[i].start_time <= r[j].start_time
            /\ sessions' = sessions]_vars

\* the work sessions of today have been asked for, and the result holds the
\* two of the store in the other order
C19_Witness ==
    /\ last.op = "get_today_sessions"
    /\ last.ret.type = "work"
    /\ Len(last.ret.result) = 2
    /\ last.ret.result[1] = sessions[2]
    /\ last.ret.result[2] = sessions[1]
    /\ sessions[2].start_time < sessions[1].start_time

\* the time from start to end of the closed sessions of a date, added up
ClosedElapsed(ss, day) == SumElapsed(ClosedOn(ss, day))

\* the closed sessions of a date that are breaks: session_type break or
\* project "BREAK"
BreakElapsed(ss, day) ==
    LET Test(s) == s.session_type = "break" \/ s.project = "BREAK"
    IN  SumElapsed(SelectSeq(ClosedOn(ss, day), Test))

\* C20: in the daily evaluation and in the day totals of the session listing
\* every closed session of a date is counted in exactly one of break
\* (session_type break or project "BREAK") and work (any other), so the day's
\* total is work + break and is the sum of the durations of all closed
\* sessions of the date.
C20_DailyPartition ==
    /\ last.op = "evaluation_sheet" =>
          \A d \in DOMAIN last.ret :
              LET row == last.ret[d]
              IN  /\ row.brk = BreakElapsed(sessions, d)
                  /\ row.work = ClosedElapsed(sessions, d) - row.brk
                  /\ row.total = row.work + row.brk
                  /\ row.total = ClosedElapsed(sessions, d)
                  /\ row.total_cell = RoundHours(ClosedElapsed(sessions, d))
    /\ last.op = "sessions_sheet" =>
          \A d \in DOMAIN last.ret.daily :
              LET info == last.ret.daily[d]
              IN  /\ info.brk = BreakElapsed(sessions, d)
                  /\ info.work = ClosedElapsed(sessions, d) - info.brk
                  /\ info.total = info.work + info.brk
                  /\ info.total = ClosedElapsed(sessions, d)
                  /\ \A i \in DOMAIN last.ret.rows :
                        LET r == last.ret.rows[i]
                        IN  r.date = d /\ r.total_cell # EmptyText
                               => r.total_cell = RoundHours(ClosedElapsed(sessions, d))

\* the evaluation has a day with a break session that is one by its project
\* only, next to a work session
C20_Witness ==
    /\ last.op = "evaluation_sheet"
    /\ \E d \in DOMAIN last.ret :
          /\ last.ret[d].work > 0
          /\ last.ret[d].brk > 0
          /\ \E i \in DOMAIN sessions :
                /\ DateOf(sessions[i].start_time) = d
                /\ sessions[i].end_time # NoneTime
                /\ sessions[i].session_type = "work"
                /\ sessions[i].project = "BREAK"

\* the closed sessions of the list, in its order
ClosedSessions(ss) ==
    LET Closed(s) == s.end_time # NoneTime
    IN  SelectSeq(ss, Closed)

\* C21: the flat session listing has exactly one row for every closed session
\* and none for an active one, and for every date exactly one row, the one of
\* the first closed session of the date by start time, carries the day's
\* work, break and total values; the other rows of the date carry none.
C21_ListingRows ==
    last.op = "sessions_sheet" =>
        LET rows == last.ret.rows
            closed == ClosedSessions(sessions)
            Carries(r) == r.work_cell # EmptyText \/ r.break_cell # EmptyText
                              \/ r.total_cell # EmptyText
        IN  /\ Len(rows) = Len(closed)
            /\ \A i \in DOMAIN rows :
                  /\ rows[i].id = closed[i].id
                  /\ rows[i].date = DateOf(closed[i].start_time)
            /\ \A i \in DOMAIN rows :
                  LET SameDate == {j \in DOMAIN rows : rows[j].date = rows[i].date}
                      Carriers == {j \in SameDate : Carries(rows[j])}
                  IN  /\ Cardinality(Carriers) = 1
                      /\ \A j \in Carriers : \A k \in SameDate :
                            closed[j].start_time <= closed[k].start_time

\* C22: if the spreadsheet file exists and cannot be opened for writing,
\* export_all writes nothing, reports failure to its caller and leaves the
\* session store unchanged.
C22_LockedExportSkipped ==
    [][(Ran("export_all") /\ workbook.exists /\ workbook.locked) =>
        /\ workbook' = workbook
        /\ last'.ret.kind = "failed"
        /\ export' = "failed"
        /\ sessions' = sessions
        /\ sessions_file' = sessions_file]_vars

\* an export has failed on a locked spreadsheet that an earlier export wrote,
\* with a session in the store that is not in the sheets
C22_Witness ==
    /\ last.op = "export_all"
    /\ last.ret.kind = "failed"
    /\ workbook.locked
    /\ workbook.sheets.sessions # sessions_sheet(sessions)

\* C23: cleanup_old_data(days_to_keep) removes exactly the sessions whose
\* start_time is earlier than now minus days_to_keep days, keeps all the
\* others unchanged and in their order, and reports true if and only if it
\* has removed a session.
C23_CleanupOldData ==
    [][Ran("cleanup_old_data") =>
        LET cutoff == now - last'.ret.days * DayMs
            Kept == {i \in DOMAIN sessions : ~(sessions[i].start_time < cutoff)}
            Nth(k) == CHOOSE i \in Kept : Cardinality({j \in Kept : j < i}) = k - 1
        IN  /\ Len(sessions') = Cardinality(Kept)
            /\ \A k \in DOMAIN sessions' : sessions'[k] = sessions[Nth(k)]
            /\ last'.ret.removed <=> (Kept # DOMAIN sessions)]_vars

\* a cleanup has removed a session and has kept one that started at the
\* cutoff
C23_Witness ==
    /\ last.op = "cleanup_old_data"
    /\ last.ret.removed
    /\ last.ret.days = 0
    /\ \E i \in DOMAIN sessions : sessions[i].start_time = now

\* the positions of the sessions with that id
WithId(ss, id) == {i \in DOMAIN ss : ss[i].id = id}

\* the least number of a set of numbers that has one
Least(S) == CHOOSE i \in S : \A j \in S : i <= j

\* C24: update_session and remove_session act only on the session whose id
\* is the given one, the first of the list that has it: update puts the
\* given session at its position and leaves the rest, remove deletes it and
\* the list is one shorter; when no session has the id both report failure and
\* the list is unchanged.
C24_ByIdOnly ==
    [][(Ran("update_session") \/ Ran("remove_session")) =>
        LET id == last'.ret.id
            M == WithId(sessions, id)
        IN  IF M = {}
            THEN ~last'.ret.ok /\ sessions' = sessions
            ELSE /\ last'.ret.ok
                 /\ Ran("update_session") =>
                       /\ Len(sessions') = Len(sessions)
                       /\ sessions'[Least(M)] = last'.ret.session
                       /\ \A j \in DOMAIN sessions \ {Least(M)} :
                             sessions'[j] = sessions[j]
                 /\ Ran("remove_session") =>
                       /\ Len(sessions') = Len(sessions) - 1
                       /\ \A j \in DOMAIN sessions' :
                             sessions'[j] = IF j < Least(M) THEN sessions[j]
                                            ELSE sessions[j + 1]]_vars

\* an update has replaced the second of two sessions and has left the first
C24_Witness ==
    /\ last.op = "update_session"
    /\ last.ret.ok
    /\ Len(sessions) = 2
    /\ sessions[2] = last.ret.session
    /\ sessions[1] # last.ret.session

\* the configuration document load_all_data reads from config.json, the
\* default one when the file is missing or does not parse
DocumentRead ==
    IF config_file.exists /\ config_file.valid THEN config_file.data
    ELSE DefaultConfig

\* C25: when the config document has no projects_data key and a legacy
\* projects file with a projects key exists, the load copies the legacy
\* document under projects_data and persists the config; on every load where
\* projects_data is present in the config the embedded copy is used, and the
\* legacy file plays no part.
C25_LegacyMigration ==
    [][Ran("load_all_data") =>
        /\ projects_file' = projects_file
        /\ IF "projects_data" \in DOMAIN DocumentRead
           THEN /\ recent' = DocumentRead.projects_data.recent_combinations
                /\ active_project' = DocumentRead.projects_data.active_project
                /\ active_task' = DocumentRead.projects_data.active_task
                /\ config_file' = config_file
           ELSE (projects_file.exists /\ projects_file.valid /\ projects_file.has_projects)
                   => /\ recent' = projects_file.data.recent_combinations
                      /\ active_project' = projects_file.data.active_project
                      /\ active_task' = projects_file.data.active_task
                      /\ config_file'.exists /\ config_file'.valid
                      /\ "projects_data" \in DOMAIN config_file'.data
                      /\ config_file'.data.projects_data = projects_file.data]_vars

\* a load has folded the legacy document into config.json
C25_Witness ==
    /\ last.op = "load_all_data"
    /\ projects_file = LegacyProjectsFile
    /\ active_project = "Legacy"
    /\ config_file.exists /\ config_file.valid
    /\ "projects_data" \in DOMAIN config_file.data
    /\ config_file.data.projects_data = LegacyProjectsFile.data

\* ------------------------------------------------ the two break tags
\* the overlay's transitions that create or re-tag a session: start and pause,
\* the quick switch (auto-split or in place) and the project/task editor
OverlayNext ==
    \/ Tick
    \/ toggle_play_pause
    \/ quick_switch_project
    \/ save_changes

OverlaySpec == Init /\ [][OverlayNext]_vars

\* C26: every session the overlay has created or re-tagged is of type break
\* if and only if its project is "BREAK"
C26_BreakTagsConsistent ==
    \A i \in 1..Len(sessions) :
        (sessions[i].session_type = "break") <=> (sessions[i].project = "BREAK")

\* ------------------------------------------------- the play/pause state
\* the overlay's transitions with the display refresh that follows them
RefreshNext ==
    \/ Tick
    \/ toggle_play_pause
    \/ quick_switch_project
    \/ save_changes
    \/ update_loop
    \/ update_display

RefreshSpec == Init /\ [][RefreshNext]_vars

\* C27: when a display refresh has run, is_running is true exactly when the
\* store has an active session, of type work or of type break
C27_RunningIffActive ==
    [][(refresh_pending /\ ~refresh_pending')
          => (is_running' <=> get_active_session(sessions') # 0)]_vars

\* C28: no two sessions of the store have the same id
C28_UniqueIds ==
    \A i, j \in 1..Len(sessions) : sessions[i].id = sessions[j].id => i = j

\* ------------------------------------------- the quick switch while idle
\* C29: a quick switch made while no session of the list is active leaves the
\* list and its objects as they are, with no active session, starts nothing,
\* and changes only the current project and task (in the overlay and in the
\* store) and the recent combinations, which gain the chosen combination; the
\* two files are written from these values
C29_IdleQuickSwitch ==
    [][(Ran("quick_switch_project")
          /\ \A i \in 1..Len(sessions) : ~sessions[i].is_active)
        => /\ sessions' = sessions
           /\ objs' = objs
           /\ get_active_session(sessions') = 0
           /\ \A i \in 1..Len(sessions') : ~sessions'[i].is_active
           /\ is_running' = is_running
           /\ uuids' = uuids
           /\ last'.ret.kind = "idle"
           /\ <<current_project', current_task'>> \in SwitchMenu
           /\ active_project' = current_project'
           /\ active_task' = current_task'
           /\ recent' = update_recent_combination(recent, current_project',
                                                  current_task')
           /\ sessions_file' = save_sessions(sessions, sessions_file, TRUE)
           /\ config_file' = save_config(auto_split_minutes, work_hours, TRUE,
                                         recent', active_project', active_task')
           /\ UNCHANGED <<auto_split_minutes, work_hours, refresh_pending,
                          window, export, now, ticks, workbook, config,
                          projects_file, session_manager>>]_vars

\* a quick switch has run with a stopped session in the list and none active
C29_Witness ==
    /\ last.op = "quick_switch_project"
    /\ last.ret.kind = "idle"
    /\ Len(sessions) > 0
    /\ \A i \in 1..Len(sessions) : ~sessions[i].is_active
    /\ current_project = active_project
    /\ Combination(current_project, current_task) = recent[1]

\* ------------------------------------------- the legacy work-time total
\* C30: the SessionManager's total_work_time is the sum of end - start over
\* the completed sessions of its list whose project is not "BREAK"
C30_TotalWorkTime ==
    session_manager.total_work_time
        = RecalculatedTotal(session_manager.sessions, FALSE)

====
